---- MODULE Spec2Model ----
(***************************************************************************)
(* detectk: the metric-check pipeline of MetricCheck.execute()             *)
(* (packages/core/detectk/check.py) with the configuration loader and the  *)
(* configuration model it depends on.  One action per pipeline stage; the  *)
(* plugins (collector, storage, detector, alerter) are the environment.    *)
(* BacktestSpec runs the same stages under BacktestRunner.run()            *)
(* (packages/core/detectk/backtest.py); ValidationSpec applies the         *)
(* detector-id validation of MetricConfig to bounded inputs.               *)
(***************************************************************************)
EXTENDS Integers, Sequences, FiniteSets, TLC

\* ------------------------------------------------------------------ bounds
MaxDetectors == 2      \* longest `detectors:` list of a configuration
MaxRows == 2           \* rows the dtk_datapoints table can take
MaxTime == 2           \* execution times are 1..MaxTime
MaxSpan == 3           \* longest detection period of a backtest, in minutes
MaxResolves == 2       \* _generate_id() calls on one DetectorConfig
CooldownMinutes == 2   \* the alerter's cooldown_minutes parameter
MaxSends == 3          \* calls made on one alerter instance
MaxRetries == 3        \* largest retry_count of an HTTP collector
MaxPieces == 2         \* pieces of a configuration file's content

VARIABLES
    pc,              \* position of execute(): idle, load, collect, save, detect,
                     \* alert, aggregate, returned, raised
    raw,             \* the configuration file named by config_path
    execution_time,  \* execute()'s execution_time argument
    detectorPlugins, \* behaviour of the plugin behind each configured detector
    config,          \* the MetricConfig _load_config returned
    errors,          \* execute()'s local `errors` list
    datapoint,       \* the DataPoint _collect_data returned
    detection,       \* the DetectionResult _run_detection returned
    alert_sent,      \* execute()'s local alert_sent
    alert_reason,    \* execute()'s local alert_reason
    result,          \* the CheckResult execute() returned
    raised,          \* the exception execute() raised ("" when none)
    calls,           \* plugin operations of this invocation, in order
    store,           \* rows of the dtk_datapoints table
    backtest,        \* the `backtest:` section of the configuration file
    bt_pc,           \* position of BacktestRunner.run(): idle, load, validate,
                     \* parse, loop, step, returned, raised
    current_time,    \* _run_backtest_loop's current_time
    step_count,      \* _run_backtest_loop's step_count
    total_steps,     \* _run_backtest_loop's total_steps
    results,         \* _run_backtest_loop's results list
    invoked,         \* execution times run() has passed to execute(), in order
    detect_calls,    \* detector.detect() invocations of this run()
    bt_result,       \* the BacktestResult run() returned
    bt_raised,       \* the exception run() raised ("" when none)
    unit_input,      \* detector fields of a configuration mapping
    unit_output,     \* what MetricConfig(**mapping) made of them
    self_detector,   \* a DetectorConfig after its field validators: id, type, params
    generated,       \* what its _generate_id() calls returned, in order
    dtk_detections,  \* rows of the dtk_detections table
    save_detections_enabled, \* SQLStorage.save_detections_enabled
    query,           \* the history query made of the SQLStorage
    query_result,    \* what that query returned or raised
    saved,           \* the DataPoints passed to save_datapoint, in order
    alerter,         \* a MattermostAlerter instance that lives across sends
    sends,           \* the send() and clear_cooldown() calls made on it, in order
    http,            \* an HTTPCollector's retry_count and method, and the
                     \* period_finish of the collection asked of it
    http_pc,         \* position of collect_bulk(): idle, loop, sleep, returned,
                     \* raised
    attempt,         \* collect_bulk's loop variable
    http_log,        \* the requests and sleeps of this collect_bulk(), in order
    http_result,     \* what collect_bulk() returned or raised
    loader_input,    \* the file, environment and template_context of a
                     \* ConfigLoader.load_file() call
    loader_pc,       \* position of load_file(): idle, env, template, yaml,
                     \* validate, returned, raised
    loader_log,      \* the processing steps run so far, with the content after each
    loader_result    \* what load_file() returned or raised

vars == <<pc, raw, execution_time, detectorPlugins, config, errors,
          datapoint, detection, alert_sent, alert_reason, result, raised, calls,
          store, backtest, bt_pc, current_time, step_count, total_steps, results,
          invoked, detect_calls, bt_result, bt_raised, unit_input, unit_output,
          self_detector, generated, dtk_detections, save_detections_enabled,
          query, query_result, saved, alerter, sends, http, http_pc, attempt,
          http_log, http_result, loader_input, loader_pc, loader_log,
          loader_result>>

\* BacktestRunner.run()'s own state, and the inputs of the validation functions.
btvars == <<backtest, bt_pc, current_time, step_count, total_steps, results,
            invoked, detect_calls, bt_result, bt_raised>>

\* A DetectorConfig on its own, and the history tables and queries of a storage.
libvars == <<self_detector, generated, dtk_detections, save_detections_enabled,
             query, query_result, saved>>

\* One alerter instance and what was asked of it.
alertervars == <<alerter, sends>>

\* One ConfigLoader.load_file() call.
loadervars == <<loader_input, loader_pc, loader_log, loader_result>>

\* One HTTPCollector and one collect_bulk() on it.
httpvars == <<http, http_pc, attempt, http_log, http_result>>

\* The plugin instances exercised on their own.
plugvars == <<alertervars, httpvars, loadervars>>

unitvars == <<unit_input, unit_output, libvars, plugvars>>

\* ------------------------------------------------------------- data model
None == "None"

\* detection.score: null, infinite, or a float (kept in thousandths)
NoScore == [kind |-> "none", milli |-> 0]
InfScore == [kind |-> "inf", milli |-> 0]
NumScore(m) == [kind |-> "num", milli |-> m]
ZeroScore == NumScore(0)
Scores == {NoScore, InfScore, NumScore(4237)}

NoDataPoint == [timestamp |-> 0, value |-> 0, present |-> FALSE]
DataPoint(t, v) == [timestamp |-> t, value |-> v, present |-> TRUE]

NoDetection ==
    [metric_name |-> None, timestamp |-> 0, value |-> 0, is_anomaly |-> FALSE,
     score |-> NoScore, error |-> "", present |-> FALSE]
DetectionResult(m, t, v, a, s, e) ==
    [metric_name |-> m, timestamp |-> t, value |-> v, is_anomaly |-> a,
     score |-> s, error |-> e, present |-> TRUE]

NoReason == [text |-> None, score |-> <<>>]

NoResult ==
    [metric_name |-> None, datapoint |-> NoDataPoint, detection |-> NoDetection,
     alert_sent |-> FALSE, alert_reason |-> NoReason, errors |-> <<>>,
     present |-> FALSE]
CheckResult(m, dp, det, sent, reason, errs) ==
    [metric_name |-> m, datapoint |-> dp, detection |-> det, alert_sent |-> sent,
     alert_reason |-> reason, errors |-> errs, present |-> TRUE]

Err(stage, exc) == [stage |-> stage, exc |-> exc]


\* ---------------------------------------------------- configuration model
\* A DetectorConfig after its own validation (id present).
NoDetector == [id |-> None, type |-> None]
DetectorConfigs ==
    {[id |-> "a", type |-> "mad"], [id |-> "b", type |-> "threshold"],
     [id |-> "a", type |-> "threshold"], [id |-> "c", type |-> "mad"]}


SeqsUpTo(S, n) == UNION {[1..k -> S] : k \in 0..n}

\* What the file at config_path holds.  `fault` is the first thing wrong with
\* the file itself; the remaining fields are the parsed mapping.
Faults == {"none", "badpath", "missing", "unreadable", "env", "template", "yaml",
           "notdict"}

RawConfig(f, n, c, d, ds, dset, se, st) ==
    [fault |-> f, name_ok |-> n, collector |-> c, detector |-> d, detectors |-> ds,
     detectors_set |-> dset, storage_enabled |-> se, storage_type |-> st]

\* (collector type, storage.enabled, storage.type)
PluginChoices ==
    {<<"clickhouse", FALSE, None>>, <<"sql", TRUE, None>>,
     <<"clickhouse", TRUE, None>>, <<"clickhouse", TRUE, "sql">>,
     <<"sql", TRUE, "mock">>}

DetectorChoices ==
    {<<d, <<>>, FALSE>> : d \in DetectorConfigs \cup {NoDetector}}
    \cup {<<NoDetector, ds, TRUE>> : ds \in SeqsUpTo(DetectorConfigs, MaxDetectors)}
    \cup {<<d, <<d>>, TRUE>> : d \in {[id |-> "a", type |-> "mad"]}}

RawConfigs ==
    {RawConfig(f, TRUE, "sql", NoDetector, <<>>, FALSE, TRUE, None) :
        f \in Faults \ {"none"}}
    \cup {RawConfig("none", FALSE, "sql", [id |-> "a", type |-> "mad"], <<>>, FALSE,
                    TRUE, None)}
    \cup {RawConfig("none", TRUE, pl[1], dc[1], dc[2], dc[3], pl[2], pl[3]) :
            dc \in DetectorChoices, pl \in PluginChoices}

NoConfig ==
    [name |-> None, collector_type |-> None, detector |-> NoDetector,
     detectors |-> <<>>, storage_enabled |-> FALSE, storage_type |-> None,
     present |-> FALSE]

MetricName == "sessions"

HasDuplicatesNever(ids) == FALSE

HasDuplicates(ids) ==
    \E i, j \in 1..Len(ids) : i # j /\ ids[i] = ids[j]

ValidateDetectorConfigAllowsBoth(r) ==
    IF r.detector = NoDetector /\ ~r.detectors_set THEN "ValueError"
    ELSE LET ds == IF r.detectors_set THEN r.detectors ELSE <<r.detector>>
         IN  IF Len(ds) = 0 THEN "ValueError"
             ELSE IF HasDuplicates([i \in 1..Len(ds) |-> ds[i].id]) THEN "ValueError"
             ELSE ""

\* MetricConfig.validate_detector_config: "ValueError" when the detector fields
\* are rejected, "" when they are accepted.
ValidateDetectorConfig(r) ==
    IF r.detector = NoDetector /\ ~r.detectors_set THEN "ValueError"
    ELSE IF r.detector # NoDetector /\ r.detectors_set THEN "ValueError"
    ELSE LET ds == IF r.detectors_set THEN r.detectors ELSE <<r.detector>>
         IN  IF Len(ds) = 0 THEN "ValueError"
             ELSE IF HasDuplicates([i \in 1..Len(ds) |-> ds[i].id]) THEN "ValueError"
             ELSE ""

\* MetricConfig(**config_dict): the validators' error, or the validated model
\* with `detectors` populated for the singular form too.
MetricConfig(r) ==
    IF ~r.name_ok THEN [exc |-> "ValueError", config |-> NoConfig]
    ELSE IF ValidateDetectorConfig(r) # "" THEN
        [exc |-> ValidateDetectorConfig(r), config |-> NoConfig]
    ELSE [exc |-> "",
          config |-> [name |-> MetricName,
                      collector_type |-> r.collector,
                      detector |-> r.detector,
                      detectors |-> IF r.detectors_set THEN r.detectors
                                    ELSE <<r.detector>>,
                      storage_enabled |-> r.storage_enabled,
                      storage_type |-> r.storage_type,
                      present |-> TRUE]]

GetDetectorsFirstOnly(c) ==
    IF Len(c.detectors) > 1 THEN <<c.detectors[1]>> ELSE c.detectors

\* MetricConfig.get_detectors() on a validated model, whose `detectors` is set.
get_detectors(c) == c.detectors

\* ------------------------------------------------- detector ids (DetectorConfig)
\* A detector mapping as written in the file: id (None when absent), type and
\* params (the mapping's <<key, value>> pairs in insertion order, one per key).
RawDetector(id, type, params) == [id |-> id, type |-> type, params |-> params]

NoRawDetector == RawDetector(None, None, <<>>)

\* DETECTOR_DEFAULTS[type] restricted to the keys the inputs use.
DETECTOR_DEFAULTS(type) ==
    IF type \in {"mad", "zscore"} THEN {<<"n_sigma", "3.0">>} ELSE {}

\* str.strip() on the strings of the inputs.
Strip(v) ==
    IF v = " a " THEN "a" ELSE IF v = "  " THEN ""
    ELSE IF v = " localhost " THEN "localhost" ELSE v

\* re.match(r"^[a-zA-Z0-9_-]+$", v) on the id strings of the inputs.
IdCharsetOk(v) == v \notin {"a b", "", " a ", "  "}

\* DetectorConfig.validate_id_format: the stripped id, or ValueError.
validate_id_format(v) ==
    IF v = None THEN [exc |-> "", id |-> None]
    ELSE IF Strip(v) = "" THEN [exc |-> "ValueError", id |-> None]
    ELSE IF ~IdCharsetOk(Strip(v)) THEN [exc |-> "ValueError", id |-> None]
    ELSE [exc |-> "", id |-> Strip(v)]

NormalizeNothing(type, params) == params

\* DetectorConfig._normalize_params: params equal to the type's default go, the
\* others stay in their insertion order.
_normalize_params(type, params) ==
    SelectSeq(params, LAMBDA p : p \notin DETECTOR_DEFAULTS(type))

\* The parameter keys of the inputs, in the order sort_keys puts them.
SortedKeys == <<"n_sigma", "window_size">>

KeyRank(key) == CHOOSE i \in DOMAIN SortedKeys : SortedKeys[i] = key

DumpsInsertionOrder(normalized) == normalized

\* json.dumps(normalized, sort_keys=True, ensure_ascii=False): the pairs in key
\* order.
json_dumps(normalized) ==
    SortSeq(normalized, LAMBDA a, b : KeyRank(a[1]) < KeyRank(b[1]))

\* sha256(f"{type}:{text}").hexdigest()[:8] for every JSON text over the
\* parameter pairs of the inputs, as <<type, pairs of the text, digest>>.
Sha256Digests ==
    {
     <<"mad", <<>>, "1743b356">>,
     <<"mad", << <<"n_sigma", "3.0">> >>, "5bdcbd5c">>,
     <<"mad", << <<"n_sigma", "5.0">> >>, "634bb28f">>,
     <<"mad", << <<"window_size", "30 days">> >>, "a2b640f6">>,
     <<"mad", << <<"window_size", "7 days">> >>, "bb969232">>,
     <<"mad", << <<"n_sigma", "3.0">>, <<"window_size", "30 days">> >>, "89abd6d1">>,
     <<"mad", << <<"n_sigma", "3.0">>, <<"window_size", "7 days">> >>, "4610ef22">>,
     <<"mad", << <<"n_sigma", "5.0">>, <<"window_size", "30 days">> >>, "c8ebd4b7">>,
     <<"mad", << <<"n_sigma", "5.0">>, <<"window_size", "7 days">> >>, "d7ad7359">>,
     <<"mad", << <<"window_size", "30 days">>, <<"n_sigma", "3.0">> >>, "4d19119e">>,
     <<"mad", << <<"window_size", "30 days">>, <<"n_sigma", "5.0">> >>, "d7256ef1">>,
     <<"mad", << <<"window_size", "7 days">>, <<"n_sigma", "3.0">> >>, "803f8c99">>,
     <<"mad", << <<"window_size", "7 days">>, <<"n_sigma", "5.0">> >>, "8764f81a">>,
     <<"zscore", <<>>, "10f653b0">>,
     <<"zscore", << <<"n_sigma", "3.0">> >>, "eecaa17f">>,
     <<"zscore", << <<"n_sigma", "5.0">> >>, "cd969d8f">>,
     <<"zscore", << <<"window_size", "30 days">> >>, "0ce71554">>,
     <<"zscore", << <<"window_size", "7 days">> >>, "8751e107">>,
     <<"zscore", << <<"n_sigma", "3.0">>, <<"window_size", "30 days">> >>, "c45938c9">>,
     <<"zscore", << <<"n_sigma", "3.0">>, <<"window_size", "7 days">> >>, "46d7726a">>,
     <<"zscore", << <<"n_sigma", "5.0">>, <<"window_size", "30 days">> >>, "658d85c8">>,
     <<"zscore", << <<"n_sigma", "5.0">>, <<"window_size", "7 days">> >>, "f0bbb695">>,
     <<"zscore", << <<"window_size", "30 days">>, <<"n_sigma", "3.0">> >>, "31c39af6">>,
     <<"zscore", << <<"window_size", "30 days">>, <<"n_sigma", "5.0">> >>, "7c777288">>,
     <<"zscore", << <<"window_size", "7 days">>, <<"n_sigma", "3.0">> >>, "797f893e">>,
     <<"zscore", << <<"window_size", "7 days">>, <<"n_sigma", "5.0">> >>, "5be6c1f1">>,
     <<"threshold", <<>>, "2ac7e7f8">>,
     <<"threshold", << <<"n_sigma", "3.0">> >>, "820c0279">>,
     <<"threshold", << <<"n_sigma", "5.0">> >>, "a1b56df1">>,
     <<"threshold", << <<"window_size", "30 days">> >>, "340797e3">>,
     <<"threshold", << <<"window_size", "7 days">> >>, "da1386bf">>,
     <<"threshold", << <<"n_sigma", "3.0">>, <<"window_size", "30 days">> >>, "5f6dd511">>,
     <<"threshold", << <<"n_sigma", "3.0">>, <<"window_size", "7 days">> >>, "80c89484">>,
     <<"threshold", << <<"n_sigma", "5.0">>, <<"window_size", "30 days">> >>, "ca5244af">>,
     <<"threshold", << <<"n_sigma", "5.0">>, <<"window_size", "7 days">> >>, "b71a5612">>,
     <<"threshold", << <<"window_size", "30 days">>, <<"n_sigma", "3.0">> >>, "d13c335d">>,
     <<"threshold", << <<"window_size", "30 days">>, <<"n_sigma", "5.0">> >>, "5fd8d37a">>,
     <<"threshold", << <<"window_size", "7 days">>, <<"n_sigma", "3.0">> >>, "258fc73b">>,
     <<"threshold", << <<"window_size", "7 days">>, <<"n_sigma", "5.0">> >>, "b8161b89">>,
     <<"custom", <<>>, "3796af48">>,
     <<"custom", << <<"n_sigma", "3.0">> >>, "620bc135">>,
     <<"custom", << <<"n_sigma", "5.0">> >>, "964f8c69">>,
     <<"custom", << <<"window_size", "30 days">> >>, "ffbf9113">>,
     <<"custom", << <<"window_size", "7 days">> >>, "b48388cc">>,
     <<"custom", << <<"n_sigma", "3.0">>, <<"window_size", "30 days">> >>, "0a679ac2">>,
     <<"custom", << <<"n_sigma", "3.0">>, <<"window_size", "7 days">> >>, "ac6a15dc">>,
     <<"custom", << <<"n_sigma", "5.0">>, <<"window_size", "30 days">> >>, "1b25ee7d">>,
     <<"custom", << <<"n_sigma", "5.0">>, <<"window_size", "7 days">> >>, "f61d82eb">>,
     <<"custom", << <<"window_size", "30 days">>, <<"n_sigma", "3.0">> >>, "efaf68fe">>,
     <<"custom", << <<"window_size", "30 days">>, <<"n_sigma", "5.0">> >>, "97080b7c">>,
     <<"custom", << <<"window_size", "7 days">>, <<"n_sigma", "3.0">> >>, "f8ab1c7e">>,
     <<"custom", << <<"window_size", "7 days">>, <<"n_sigma", "5.0">> >>, "fa6fa2e1">>
    }

\* hashlib.sha256(f"{type}:{canonical_json}".encode()).hexdigest()[:8]
sha256_8(type, canonical_json) ==
    (CHOOSE e \in Sha256Digests : e[1] = type /\ e[2] = canonical_json)[3]

_generate_id(type, params) ==
    sha256_8(type, json_dumps(_normalize_params(type, params)))

EnsureIdAlwaysGenerated(id, type, params) == _generate_id(type, params)

\* DetectorConfig.ensure_id_exists, on a detector whose id passed its validator.
ensure_id_exists(id, type, params) ==
    IF id = None THEN _generate_id(type, params) ELSE id

\* DetectorConfig(**mapping): ValueError, or the detector with its resolved id.
DetectorConfig(d) ==
    IF validate_id_format(d.id).exc # "" THEN
        [exc |-> "ValueError", detector |-> NoDetector]
    ELSE [exc |-> "",
          detector |-> [id |-> ensure_id_exists(validate_id_format(d.id).id,
                                                d.type, d.params),
                        type |-> d.type]]

\* The detector fields of the mappings handed to MetricConfig.
RawIds == {None, "a", " a ", "  ", "a b", "1743b356"}
RawParams == {<<>>, << <<"n_sigma", "3.0">> >>, << <<"n_sigma", "5.0">> >>}
RawDetectors ==
    {RawDetector(i, t, ps) : i \in RawIds, t \in {"mad", "threshold"}, ps \in RawParams}

UnitInput(d, ds, dset) == [detector |-> d, detectors |-> ds, detectors_set |-> dset]

UnitInputs ==
    {UnitInput(d, <<>>, FALSE) : d \in RawDetectors \cup {NoRawDetector}}
    \cup {UnitInput(NoRawDetector, ds, TRUE) : ds \in SeqsUpTo(RawDetectors, MaxDetectors)}
    \cup {UnitInput(d, <<d>>, TRUE) : d \in {RawDetector(None, "mad", <<>>)}}

NoUnitOutput == [exc |-> "", detectors |-> <<>>, present |-> FALSE]

\* MetricConfig(**mapping) on the detector fields: the nested DetectorConfig
\* models are built first, then validate_detector_config runs on them.
ValidateUnit(u) ==
    LET one == IF u.detector = NoRawDetector
               THEN [exc |-> "", detector |-> NoDetector]
               ELSE DetectorConfig(u.detector)
        many == [i \in 1..Len(u.detectors) |-> DetectorConfig(u.detectors[i])]
        r == [detector |-> one.detector,
              detectors |-> [i \in 1..Len(many) |-> many[i].detector],
              detectors_set |-> u.detectors_set]
    IN  IF one.exc # "" \/ \E i \in 1..Len(many) : many[i].exc # "" THEN
            [exc |-> "ValueError", detectors |-> <<>>, present |-> TRUE]
        ELSE IF ValidateDetectorConfig(r) # "" THEN
            [exc |-> ValidateDetectorConfig(r), detectors |-> <<>>, present |-> TRUE]
        ELSE [exc |-> "",
              detectors |-> IF r.detectors_set THEN r.detectors ELSE <<r.detector>>,
              present |-> TRUE]

\* ConfigLoader.load_file: every failure after Path(config_path) leaves as a
\* ConfigurationError; Path() itself raises TypeError on a path of a wrong type.
load_file(r) ==
    IF r.fault = "badpath" THEN [exc |-> "TypeError", config |-> NoConfig]
    ELSE IF r.fault \in {"missing", "unreadable", "env", "template", "yaml", "notdict"}
        THEN [exc |-> "ConfigurationError", config |-> NoConfig]
    ELSE IF MetricConfig(r).exc # "" THEN
        [exc |-> "ConfigurationError", config |-> NoConfig]
    ELSE MetricConfig(r)

\* MetricCheck._load_config: ConfigurationError passes, anything else is wrapped.
LoadConfigReraise(r) == load_file(r)

_load_config(r) ==
    IF load_file(r).exc \in {"", "ConfigurationError"} THEN load_file(r)
    ELSE [exc |-> "ConfigurationError", config |-> NoConfig]

\* execute()'s except clauses: ConfigurationError is re-raised, every other
\* exception becomes the degraded CheckResult.
UnexpectedError(msg) == Err("Unexpected error during metric check", msg)

DegradedResult(path, t, errs, exc) ==
    CheckResult(path, DataPoint(t, 0),
                DetectionResult(path, t, 0, FALSE, ZeroScore, ""),
                FALSE, NoReason, Append(errs, UnexpectedError(exc)))

ExecuteRaisesAll(exc) == TRUE

ExecuteRaises(exc) == exc = "ConfigurationError"

ConfigPath == "configs/sessions.yaml"

\* ------------------------------------------------------ plugins (environment)
\* One plugin operation: the role and operation, the detector index, how it
\* ended and the arguments the orchestrator passed that the claims look at
\* (the registry key resolved, the storage handle, detect()'s value and
\* timestamp).
NoArgs == [type |-> None, storage |-> None, value |-> 0, timestamp |-> 0]

CallArgs(role, op, idx, out, args) ==
    [role |-> role, op |-> op, idx |-> idx, out |-> out, args |-> args]

Call(role, op, idx, out) == CallArgs(role, op, idx, out, NoArgs)

\* Storage classes by registry key.  "sql" is SQLStorage, which implements the
\* BaseStorage contract (save_datapoint, ...); "mock" is a duck-typed double that
\* answers every method name.
Unregistered == [name |-> None, methods |-> {}]
SQLStorage ==
    [name |-> "SQLStorage",
     methods |-> {"save_datapoint", "save_detection", "query_datapoints",
                  "query_detections", "cleanup_old_data", "close"}]
MockStorage ==
    [name |-> "MockStorage",
     methods |-> {"save", "save_datapoint", "query_datapoints", "close"}]

StorageRegistry(type) ==
    IF type = "sql" THEN SQLStorage
    ELSE IF type = "mock" THEN MockStorage
    ELSE Unregistered

\* A DataPoint's value of None (missing data), as a number that no metric
\* value of the model takes.
Null == -1

\* SQLStorage.save_datapoint: one row per call; a null value is stored as 0.0.
save_datapoint(rows, metric, dp) ==
    Append(rows, [metric_name |-> metric, collected_at |-> dp.timestamp,
                  value |-> IF dp.value = Null THEN 0 ELSE dp.value])

\* What the plugin behind a configured detector does in this invocation.
DetectorBehaviours ==
    {[outcome |-> o, is_anomaly |-> FALSE, score |-> NoScore] :
        o \in {"unregistered", "construct_fail", "detect_throws"}}
    \cup {[outcome |-> "returns", is_anomaly |-> TRUE, score |-> s] : s \in Scores}
    \cup {[outcome |-> "returns", is_anomaly |-> FALSE, score |-> NumScore(1234)]}

\* What the collector plugin does in this invocation.  `timestamp` is how far
\* before at_time the returned point lies (0: the collector used at_time).
Values == {0, 42}

CollectorBehaviours ==
    {[outcome |-> "unregistered", exc |-> "KeyError", timestamp |-> 0, value |-> 0]}
    \cup {[outcome |-> "construct_fail", exc |-> e, timestamp |-> 0, value |-> 0] :
            e \in {"ConfigurationError", "TypeError"}}
    \cup {[outcome |-> o, exc |-> "CollectionError", timestamp |-> 0, value |-> 0] :
            o \in {"collect_fail"}}
    \cup {[outcome |-> "ok", exc |-> "", timestamp |-> t, value |-> v] :
            t \in {0, 1}, v \in Values}
    \cup {[outcome |-> "close_fail", exc |-> "OSError", timestamp |-> 0, value |-> 0]}

StorageBehaviours ==
    {[outcome |-> "construct_fail", exc |-> e] :
        e \in {"ConfigurationError", "StorageError"}}
    \cup {[outcome |-> "save_fail", exc |-> "StorageError"],
          [outcome |-> "ok", exc |-> ""]}

AlerterBehaviours ==
    {"conditions_fail", "unregistered", "construct_fail", "send_throws",
     "send_false", "send_true"}

\* ------------------------------------------------------------ stage helpers
\* MetricCheck._collect_data: every exception of resolution, construction,
\* collect() or close() leaves as CollectionError; close() is reached only
\* after collect() returned.
CollectorCalls(b) ==
    IF b.outcome = "unregistered" THEN <<>>
    ELSE IF b.outcome = "construct_fail" THEN
        <<Call("collector", "construct", 0, "raise")>>
    ELSE IF b.outcome = "collect_fail" THEN
        <<Call("collector", "construct", 0, "ok"),
          Call("collector", "collect", 0, "raise")>>
    ELSE <<Call("collector", "construct", 0, "ok"),
           Call("collector", "collect", 0, "ok"),
           Call("collector", "close", 0,
                IF b.outcome = "close_fail" THEN "raise" ELSE "ok")>>

_collect_data(b, at_time) ==
    [exc |-> IF b.outcome = "ok" THEN "" ELSE "CollectionError",
     datapoint |-> IF b.outcome = "ok"
                   THEN DataPoint(at_time - b.timestamp, b.value)
                   ELSE NoDataPoint,
     calls |-> CollectorCalls(b)]

StorageTypeOfCollector(cfg) == cfg.collector_type

\* The storage type both the persist and the detect stage resolve.
StorageTypeOf(cfg) ==
    IF cfg.storage_type = None THEN cfg.collector_type ELSE cfg.storage_type

\* The method name _save_to_storage calls on the storage instance.
SaveMethod == "save"

\* storage_class(**config.storage.params) on the class registered under `type`.
StorageConstruct(type, out) ==
    CallArgs("storage", "construct", 0, out, [NoArgs EXCEPT !.type = type])

\* The storage handle _run_detection gives the detector: the instance it made
\* when storage is enabled, None otherwise.
StorageHandle(cfg) == IF cfg.storage_enabled THEN "instance" ELSE None

\* detector_class(storage=storage, **config.detector.params)
DetectorConstruct(cfg, out) ==
    CallArgs("detector", "construct", 1, out,
             [NoArgs EXCEPT !.storage = StorageHandle(cfg)])

\* The arguments of detector.detect(): the collected point's value and timestamp.
DetectArgsZeroValue(dp) == [NoArgs EXCEPT !.timestamp = dp.timestamp]

DetectArgs(dp) == [NoArgs EXCEPT !.value = dp.value, !.timestamp = dp.timestamp]

\* MetricCheck._save_to_storage up to its except clause: the exception caught
\* ("" when none), the plugin operations performed and the table afterwards.
_save_to_storage(cfg, metric, dp, b, rows) ==
    LET cls == StorageRegistry(StorageTypeOf(cfg))
        made == <<StorageConstruct(StorageTypeOf(cfg), "ok")>>
    IN  IF cls = Unregistered THEN
            [exc |-> "KeyError", calls |-> <<>>, rows |-> rows]
        ELSE IF b.outcome = "construct_fail" THEN
            [exc |-> b.exc,
             calls |-> <<StorageConstruct(StorageTypeOf(cfg), "raise")>>,
             rows |-> rows]
        ELSE IF SaveMethod \notin cls.methods THEN
            [exc |-> "AttributeError",
             calls |-> Append(made, Call("storage", SaveMethod, 0, "missing")),
             rows |-> rows]
        ELSE IF b.outcome = "save_fail" THEN
            [exc |-> b.exc,
             calls |-> Append(made, Call("storage", SaveMethod, 0, "raise")),
             rows |-> rows]
        ELSE
            [exc |-> "",
             calls |-> Append(made, Call("storage", SaveMethod, 0, "ok")),
             rows |-> IF SaveMethod = "save_datapoint"
                      THEN save_datapoint(rows, metric, dp) ELSE rows]

\* _save_to_storage's except clause: the failure is recorded, never raised.
SaveErrorsDropped(errs, exc) == errs

SaveErrors(errs, exc) ==
    IF exc = "" THEN errs ELSE Append(errs, Err("Failed to save to storage", exc))

\* MetricCheck._run_detection up to its except clause.  `plan` is the behaviour
\* of the plugins behind get_detectors(); `sb` is what the storage constructor
\* does this time.
_run_detection(cfg, metric, dp, plan, sb) ==
    LET cls == StorageRegistry(StorageTypeOf(cfg))
        sc == IF cfg.storage_enabled
              THEN <<StorageConstruct(StorageTypeOf(cfg), "ok")>> ELSE <<>>
        none == NoDetection
    IN  IF cfg.detector = NoDetector THEN
            [exc |-> "AttributeError", detection |-> none, calls |-> <<>>]
        ELSE IF plan[1].outcome = "unregistered" THEN
            [exc |-> "KeyError", detection |-> none, calls |-> <<>>]
        ELSE IF cfg.storage_enabled /\ cls = Unregistered THEN
            [exc |-> "KeyError", detection |-> none, calls |-> <<>>]
        ELSE IF cfg.storage_enabled /\ sb.outcome = "construct_fail" THEN
            [exc |-> sb.exc, detection |-> none,
             calls |-> <<StorageConstruct(StorageTypeOf(cfg), "raise")>>]
        ELSE IF plan[1].outcome = "construct_fail" THEN
            [exc |-> "TypeError", detection |-> none,
             calls |-> Append(sc, DetectorConstruct(cfg, "raise"))]
        ELSE IF plan[1].outcome = "detect_throws" THEN
            [exc |-> "DetectionError", detection |-> none,
             calls |-> sc \o <<DetectorConstruct(cfg, "ok"),
                                CallArgs("detector", "detect", 1, "raise",
                                         DetectArgs(dp))>>]
        ELSE
            [exc |-> "",
             detection |-> DetectionResult(metric, dp.timestamp, dp.value,
                                           plan[1].is_anomaly, plan[1].score, ""),
             calls |-> sc \o <<DetectorConstruct(cfg, "ok"),
                                CallArgs("detector", "detect", 1, "ok",
                                         DetectArgs(dp))>>]

ErrorDetectionZero(metric, dp, exc) ==
    DetectionResult(metric, 0, 0, FALSE, ZeroScore, exc)

\* _run_detection's except clause: the non-anomalous result carrying the error.
ErrorDetection(metric, dp, exc) ==
    DetectionResult(metric, dp.timestamp, dp.value, FALSE, ZeroScore, exc)

\* f"{score:.2f}": None has no float format; inf prints as inf; a float is
\* rounded to hundredths.
Format2f(score) ==
    IF score.kind = "none" THEN [exc |-> "TypeError", kind |-> "", hundredths |-> 0]
    ELSE IF score.kind = "inf" THEN [exc |-> "", kind |-> "inf", hundredths |-> 0]
    ELSE [exc |-> "", kind |-> "num", hundredths |-> (score.milli + 5) \div 10]

AlertFailed(exc) ==
    [sent |-> FALSE, reason |-> NoReason,
     errs |-> <<Err("Failed to send alert", exc)>>]

\* _send_alert after alerter.send returned `success`.
AlertOutcomeAlwaysSent(success, det) ==
    [sent |-> TRUE,
     reason |-> [text |-> "Anomaly detected: score=", score |-> <<>>],
     errs |-> <<>>]

AlertOutcome(success, det) ==
    IF success THEN
        IF Format2f(det.score).exc # "" THEN AlertFailed(Format2f(det.score).exc)
        ELSE [sent |-> TRUE,
              reason |-> [text |-> "Anomaly detected: score=",
                          score |-> <<Format2f(det.score).kind,
                                      Format2f(det.score).hundredths>>],
              errs |-> <<>>]
    ELSE [sent |-> FALSE, reason |-> NoReason,
          errs |-> <<Err("Alert sending failed (returned False)", "")>>]

\* The alerter operations of _send_alert once the class is resolved: one
\* instance, one send() whose outcome is `out`.
AlerterSendCallsRetry(out) ==
    IF out = "False" THEN
        <<Call("alerter", "construct", 0, "ok"), Call("alerter", "send", 0, out),
          Call("alerter", "send", 0, out)>>
    ELSE <<Call("alerter", "construct", 0, "ok"), Call("alerter", "send", 0, out)>>

AlerterSendCalls(out) ==
    <<Call("alerter", "construct", 0, "ok"), Call("alerter", "send", 0, out)>>

\* timedelta(minutes=1).total_seconds()
SecondsPerMinute == 60

\* MattermostAlerter.__init__: the cooldown tracker (metric name -> time of the
\* last alert, here a set of pairs) starts empty in every instance.
MattermostAlerter ==
    [cooldown_minutes |-> CooldownMinutes, _last_alert_time |-> {}]

InCooldownInclusive(self, metric_name, t) ==
    IF self.cooldown_minutes = 0 THEN FALSE
    ELSE IF ~\E e \in self._last_alert_time : e[1] = metric_name THEN FALSE
    ELSE LET last == CHOOSE e \in self._last_alert_time : e[1] = metric_name
         IN  t - last[2] <= self.cooldown_minutes * SecondsPerMinute

InCooldownForwardOnly(self, metric_name, t) ==
    IF self.cooldown_minutes = 0 THEN FALSE
    ELSE IF ~\E e \in self._last_alert_time : e[1] = metric_name THEN FALSE
    ELSE LET last == CHOOSE e \in self._last_alert_time : e[1] = metric_name
         IN  /\ 0 <= t - last[2]
             /\ t - last[2] < self.cooldown_minutes * SecondsPerMinute

\* MattermostAlerter._in_cooldown
_in_cooldown(self, metric_name, t) ==
    IF self.cooldown_minutes = 0 THEN FALSE
    ELSE IF ~\E e \in self._last_alert_time : e[1] = metric_name THEN FALSE
    ELSE LET last == CHOOSE e \in self._last_alert_time : e[1] = metric_name
         IN  t - last[2] < self.cooldown_minutes * SecondsPerMinute

\* MattermostAlerter.send when the webhook accepts the message: False for a
\* non-anomalous result or one in cooldown, True otherwise.
send(self, det) ==
    det.is_anomaly /\ ~_in_cooldown(self, det.metric_name, det.timestamp)

\* MetricCheck._send_alert: (alert_sent, alert_reason), the errors appended and
\* the plugin operations performed.  The alerter is a new instance each time.
_send_alert(det, b) ==
    LET with(r, cs) == [sent |-> r.sent, reason |-> r.reason, errs |-> r.errs,
                        calls |-> cs]
    IN  IF b = "conditions_fail" THEN with(AlertFailed("TypeError"), <<>>)
        ELSE IF ~det.is_anomaly THEN
            [sent |-> FALSE, reason |-> NoReason, errs |-> <<>>, calls |-> <<>>]
        ELSE IF b = "unregistered" THEN with(AlertFailed("KeyError"), <<>>)
        ELSE IF b = "construct_fail" THEN
            with(AlertFailed("ConfigurationError"),
                 <<Call("alerter", "construct", 0, "raise")>>)
        ELSE IF b = "send_throws" THEN
            with(AlertFailed("AlertError"), AlerterSendCalls("raise"))
        ELSE IF b = "send_false" THEN
            with(AlertOutcome(FALSE, det), AlerterSendCalls("False"))
        ELSE LET ok == send(MattermostAlerter, det)
             IN  with(AlertOutcome(ok, det),
                      AlerterSendCalls(IF ok THEN "True" ELSE "False"))

\* self._last_alert_time[metric_name] = t
SetLastAlert(last, metric_name, t) ==
    {e \in last : e[1] # metric_name} \cup {<<metric_name, t>>}

MattermostSendRecordsFirst(self, det, webhook) ==
    LET marked == [self EXCEPT !._last_alert_time =
                       SetLastAlert(@, det.metric_name, det.timestamp)]
    IN  IF ~det.is_anomaly \/ _in_cooldown(self, det.metric_name, det.timestamp)
        THEN [returned |-> "False", requests |-> 0, self |-> self]
        ELSE IF webhook = "ok"
        THEN [returned |-> "True", requests |-> 1, self |-> marked]
        ELSE [returned |-> "AlertError", requests |-> 1, self |-> marked]

\* MattermostAlerter.send: what it returns or raises, the webhook requests it
\* makes and the instance afterwards.  `webhook` is what the webhook does with
\* a request: "ok", or "fail" (requests.post or raise_for_status raises).
MattermostAlerter_send(self, det, webhook) ==
    IF ~det.is_anomaly THEN
        [returned |-> "False", requests |-> 0, self |-> self]
    ELSE IF _in_cooldown(self, det.metric_name, det.timestamp) THEN
        [returned |-> "False", requests |-> 0, self |-> self]
    ELSE IF webhook = "ok" THEN
        [returned |-> "True", requests |-> 1,
         self |-> [self EXCEPT !._last_alert_time =
                       SetLastAlert(@, det.metric_name, det.timestamp)]]
    ELSE [returned |-> "AlertError", requests |-> 1, self |-> self]

\* MattermostAlerter.clear_cooldown: one metric's entry, or all with None.
clear_cooldown(self, metric_name) ==
    [self EXCEPT !._last_alert_time =
        IF metric_name = None THEN {} ELSE {e \in @ : e[1] # metric_name}]

\* No alerter is exercised on its own.
AlerterIdle ==
    /\ alerter = MattermostAlerter
    /\ sends = <<>>

\* HTTPCollector.__init__: retry_count and method as configured.
HTTPCollector(retry_count, method) == [retry_count |-> retry_count, method |-> method]

RetryRangeInclusive(retry_count) == 0..retry_count

\* range(self.retry_count)
RetryRange(retry_count) == 0..(retry_count - 1)

\* One event of a collect_bulk(): a request by `method` with its outcome
\* ("ok": a response whose value parses; "request_error": a
\* RequestException from the request or raise_for_status; "parse_error": any
\* other exception, as from _parse_response), or a sleep.
HttpRequest(method, outcome) == [kind |-> "request", method |-> method, outcome |-> outcome]
HttpSleep == [kind |-> "sleep", method |-> None, outcome |-> None]

NoHttpResult == [exc |-> "", datapoints |-> <<>>, present |-> FALSE]

\* No HTTP collector is exercised on its own.
HttpIdle ==
    /\ http = [collector |-> HTTPCollector(0, "GET"), period_finish |-> 0]
    /\ http_pc = "idle"
    /\ attempt = 0
    /\ http_log = <<>>
    /\ http_result = NoHttpResult

\* ------------------------------------------------ ConfigLoader.load_file
\* The file content is a sequence of pieces: plain YAML text, a piece the YAML
\* parser rejects, an environment reference ${name} or ${name:-default}
\* (default None when absent), or a template expression {{ name }}.
Text(s) == [kind |-> "text", name |-> s, default |-> None]
BadYaml == [kind |-> "badyaml", name |-> "a: [", default |-> None]
EnvRef(name, default) == [kind |-> "env", name |-> name, default |-> default]
Tmpl(name) == [kind |-> "tmpl", name |-> name, default |-> None]

\* os.environ.get(name) is None
Unset == [kind |-> "unset", name |-> None, default |-> None]

\* replace_var of _substitute_env_vars on one piece: the replacement text, or
\* ConfigurationError for an unset variable without default.
replace_var(piece, environ) ==
    IF piece.kind # "env" THEN [exc |-> "", piece |-> piece]
    ELSE IF environ[piece.name] # Unset THEN [exc |-> "", piece |-> environ[piece.name]]
    ELSE IF piece.default # None THEN [exc |-> "", piece |-> Text(Strip(piece.default))]
    ELSE [exc |-> "ConfigurationError", piece |-> piece]

\* ConfigLoader._substitute_env_vars: re.sub over the whole content.
_substitute_env_vars(content, environ) ==
    IF \E i \in DOMAIN content : replace_var(content[i], environ).exc # ""
    THEN [exc |-> "ConfigurationError", content |-> content]
    ELSE [exc |-> "",
          content |-> [i \in DOMAIN content |-> replace_var(content[i], environ).piece]]

\* jinja_env.from_string(content).render(**template_context) with
\* StrictUndefined: a name outside the context is a TemplateError.
render(content, template_context) ==
    IF \E i \in DOMAIN content :
          content[i].kind = "tmpl" /\ content[i].name \notin DOMAIN template_context
    THEN [exc |-> "ConfigurationError", content |-> content]
    ELSE [exc |-> "",
          content |-> [i \in DOMAIN content |->
                          IF content[i].kind = "tmpl"
                          THEN template_context[content[i].name]
                          ELSE content[i]]]

\* yaml.safe_load and the isinstance check: the document as parsed, every
\* remaining piece as the text it is.
safe_load(content, shape) ==
    IF \E i \in DOMAIN content : content[i].kind = "badyaml"
    THEN [exc |-> "ConfigurationError", content |-> content]
    ELSE IF shape # "mapping" THEN [exc |-> "ConfigurationError", content |-> content]
    ELSE [exc |-> "", content |-> content]

NextStepTemplateFirst(done, template_context) ==
    IF done = "read" THEN (IF DOMAIN template_context # {} THEN "template" ELSE "env")
    ELSE IF done = "template" THEN "env"
    ELSE IF done = "env" THEN "yaml"
    ELSE IF done = "yaml" THEN "validate"
    ELSE "returned"

\* The step load_file and _parse_yaml run after step `done`.
NextStep(done, template_context) ==
    IF done = "read" THEN "env"
    ELSE IF done = "env" THEN (IF DOMAIN template_context # {} THEN "template" ELSE "yaml")
    ELSE IF done = "template" THEN "yaml"
    ELSE IF done = "yaml" THEN "validate"
    ELSE "returned"

NoLoaderInput ==
    [file |-> "missing", content |-> <<>>, shape |-> "mapping", valid |-> FALSE,
     environ |-> <<>>, template_context |-> <<>>]

NoLoaderResult == [exc |-> "", config |-> <<>>, present |-> FALSE]

\* No load_file() is exercised on its own.
LoaderIdle ==
    /\ loader_input = NoLoaderInput
    /\ loader_pc = "idle"
    /\ loader_log = <<>>
    /\ loader_result = NoLoaderResult

PlugIdle == AlerterIdle /\ HttpIdle /\ LoaderIdle

\* ------------------------------------------------- backtest (BacktestRunner)
\* A date field of the `backtest:` section: absent, an empty string, a string
\* dateutil cannot parse, a date without UTC offset ("date") or one with it
\* ("aware"); t is the instant in seconds on the model's clock.
DateStr(kind, t) == [kind |-> kind, t |-> t]
NoDate == DateStr("none", 0)

\* A duration expression (step_interval, a storage window): absent, empty, one
\* word, three words ("<amount> <unit> <word>"), a non-integer amount before
\* the unit, or "<amount> <unit>" with a unit word that may be unknown.
IntervalStr(kind, amount, unit) == [kind |-> kind, amount |-> amount, unit |-> unit]
NoInterval == IntervalStr("none", 0, "")

BacktestConfig(en, dls, ds, de, si) ==
    [enabled |-> en, data_load_start |-> dls, detection_start |-> ds,
     detection_end |-> de, step_interval |-> si]

\* BacktestConfig's defaults: what a file without a `backtest:` section has.
NoBacktest == BacktestConfig(FALSE, NoDate, NoDate, NoDate, NoInterval)

\* Python truthiness of an optional string.
Falsy(s) == s.kind \in {"none", "empty"}

\* MetricConfig.model_post_init: "ValueError" or "".
model_post_init(b) ==
    IF b.enabled /\ (Falsy(b.data_load_start) \/ Falsy(b.detection_start)
                     \/ Falsy(b.step_interval))
    THEN "ValueError" ELSE ""

\* ConfigLoader.load_file without a template context, as run() calls it: the
\* Jinja step is skipped, so a template that cannot render is not noticed.
load_file_no_context(r, b) ==
    LET plain == IF r.fault = "template" THEN [r EXCEPT !.fault = "none"] ELSE r
    IN  IF load_file(plain).exc # "" THEN load_file(plain)
        ELSE IF model_post_init(b) # "" THEN
            [exc |-> "ConfigurationError", config |-> NoConfig]
        ELSE load_file(plain)

\* BacktestRunner._parse_datetime: dateutil gives an offset-aware datetime for a
\* string that carries an offset and a naive one otherwise.
_parse_datetime(s) ==
    IF Falsy(s) THEN [exc |-> "ConfigurationError", t |-> 0, aware |-> FALSE]
    ELSE IF s.kind = "invalid" THEN
        [exc |-> "ConfigurationError", t |-> 0, aware |-> FALSE]
    ELSE [exc |-> "", t |-> s.t, aware |-> s.kind = "aware"]

\* datetime's ordering operators raise TypeError between a naive and an
\* offset-aware operand.
Comparable(a, b) == a.aware = b.aware

\* str.lower() on the unit words of the inputs.
Lower(unit) ==
    IF unit = "DAYS" THEN "days" ELSE IF unit = "Hours" THEN "hours" ELSE unit

\* str.rstrip("s") on the lower-case unit words of the inputs.
rstrip_s(unit) ==
    IF unit = "seconds" THEN "second"
    ELSE IF unit = "minutes" THEN "minute"
    ELSE IF unit = "hours" THEN "hour"
    ELSE IF unit = "days" THEN "day"
    ELSE IF unit = "weeks" THEN "week"
    ELSE IF unit = "fortnights" THEN "fortnight"
    ELSE unit

\* timedelta(<unit>s=1).total_seconds() for the units of unit_map.
UnitSeconds(unit) ==
    IF unit = "second" THEN 1
    ELSE IF unit = "minute" THEN SecondsPerMinute
    ELSE IF unit = "hour" THEN 60 * SecondsPerMinute
    ELSE IF unit = "day" THEN 24 * 60 * SecondsPerMinute
    ELSE 7 * 24 * 60 * SecondsPerMinute

\* BacktestRunner._parse_interval: the timedelta in seconds; any integer amount
\* is taken, its sign included.
_parse_interval(s) ==
    IF Falsy(s) THEN [exc |-> "ConfigurationError", seconds |-> 0]
    ELSE IF s.kind \in {"oneword", "threewords"} THEN
        [exc |-> "ConfigurationError", seconds |-> 0]
    ELSE IF s.kind = "notint" THEN [exc |-> "ConfigurationError", seconds |-> 0]
    ELSE IF rstrip_s(Lower(s.unit)) \in {"second", "minute", "hour", "day", "week"}
    THEN [exc |-> "", seconds |-> s.amount * UnitSeconds(rstrip_s(Lower(s.unit)))]
    ELSE [exc |-> "ConfigurationError", seconds |-> 0]

\* BacktestRunner._validate_backtest_config: the exception raised, or "".
_validate_backtest_config(b) ==
    IF Falsy(b.data_load_start) THEN "ConfigurationError"
    ELSE IF Falsy(b.detection_start) THEN "ConfigurationError"
    ELSE IF Falsy(b.detection_end) THEN "ConfigurationError"
    ELSE IF Falsy(b.step_interval) THEN "ConfigurationError"
    ELSE IF _parse_datetime(b.data_load_start).exc # "" THEN "ConfigurationError"
    ELSE IF _parse_datetime(b.detection_start).exc # "" THEN "ConfigurationError"
    ELSE IF _parse_datetime(b.detection_end).exc # "" THEN "ConfigurationError"
    ELSE IF ~Comparable(_parse_datetime(b.data_load_start),
                        _parse_datetime(b.detection_start)) THEN "TypeError"
    ELSE IF _parse_datetime(b.data_load_start).t
            >= _parse_datetime(b.detection_start).t THEN "ConfigurationError"
    ELSE IF ~Comparable(_parse_datetime(b.detection_start),
                        _parse_datetime(b.detection_end)) THEN "TypeError"
    ELSE IF _parse_datetime(b.detection_start).t
            >= _parse_datetime(b.detection_end).t THEN "ConfigurationError"
    ELSE ""

\* run() from the enabled check to the parsed interval: the exception, or "".
ValidateAndParse(b) ==
    IF ~b.enabled THEN "ConfigurationError"
    ELSE IF _validate_backtest_config(b) # "" THEN _validate_backtest_config(b)
    ELSE _parse_interval(b.step_interval).exc

\* int(a / b) for b # 0: Python's true division, truncated toward zero.
IntDiv(a, b) ==
    IF b > 0 THEN IF a >= 0 THEN a \div b ELSE -((-a) \div b)
    ELSE IF a >= 0 THEN -(a \div (-b)) ELSE (-a) \div (-b)

ProgressTenth == 10
ProgressEvery == 100

Max(a, b) == IF a >= b THEN a ELSE b

\* The progress branch of the loop body: whether it is taken, and the
\* exception its division raises ("" when none).
LogsProgress(count, total) ==
    count % Max(1, total \div ProgressTenth) = 0 \/ count % ProgressEvery = 0

ProgressExc(count, total) ==
    IF LogsProgress(count, total) /\ total = 0 THEN "ZeroDivisionError" ELSE ""

\* datetime.min on the model's clock: `current_time += step_interval` below it
\* raises OverflowError.
DatetimeMin == 0

\* The execution time the loop passes to execute().
StepExecutionTimeShifted(t) == t + 1

StepExecutionTime(t) == t

\* results.append(result)
AppendResultIfClean(rs, r) == IF r.errors = <<>> THEN Append(rs, r) ELSE rs

AppendResult(rs, r) == Append(rs, r)

\* run()'s aggregate counts.
CountAll(rs) == Len(rs)

anomalies_detected(rs) ==
    Cardinality({i \in DOMAIN rs :
                    rs[i].detection.present /\ rs[i].detection.is_anomaly})

alerts_sent(rs) == Cardinality({i \in DOMAIN rs : rs[i].alert_sent})

NoBacktestResult ==
    [metric_name |-> None, total_checks |-> 0, anomalies_detected |-> 0,
     alerts_sent |-> 0, results |-> <<>>, present |-> FALSE]

BacktestResult(m, rs) ==
    [metric_name |-> m, total_checks |-> Len(rs),
     anomalies_detected |-> anomalies_detected(rs), alerts_sent |-> alerts_sent(rs),
     results |-> rs, present |-> TRUE]

\* ------------------------------------------------------------------ actions
\* No history query has been made yet.
NoQuery ==
    [op |-> None, metric_name |-> None, window |-> NoInterval, end_time |-> 0,
     present |-> FALSE]

NoQueryResult == [exc |-> "", rows |-> <<>>, present |-> FALSE]

NoRaw == RawConfig("missing", TRUE, "sql", NoDetector, <<>>, FALSE, TRUE, None)

Init ==
    /\ pc = "idle"
    /\ raw = NoRaw
    /\ execution_time = 0
    /\ detectorPlugins = <<>>
    /\ config = NoConfig
    /\ errors = <<>>
    /\ datapoint = NoDataPoint
    /\ detection = NoDetection
    /\ alert_sent = FALSE
    /\ alert_reason = NoReason
    /\ result = NoResult
    /\ raised = ""
    /\ calls = <<>>
    /\ store = <<>>
    /\ backtest = NoBacktest
    /\ bt_pc = "idle"
    /\ current_time = 0
    /\ step_count = 0
    /\ total_steps = 0
    /\ results = <<>>
    /\ invoked = <<>>
    /\ detect_calls = 0
    /\ bt_result = NoBacktestResult
    /\ bt_raised = ""
    /\ unit_input = UnitInput(NoRawDetector, <<>>, FALSE)
    /\ unit_output = NoUnitOutput
    /\ self_detector = NoRawDetector
    /\ generated = <<>>
    /\ dtk_detections = <<>>
    /\ save_detections_enabled = FALSE
    /\ query = NoQuery
    /\ query_result = NoQueryResult
    /\ saved = <<>>
    /\ PlugIdle

\* execute(config_path, execution_time) is called.
Execute ==
    /\ pc = "idle"
    /\ Len(store) < MaxRows
    /\ \E r \in RawConfigs, t \in 1..MaxTime :
        \E plan \in [1..Len(get_detectors(MetricConfig(r).config))
                        -> DetectorBehaviours] :
            /\ raw' = r
            /\ execution_time' = t
            /\ detectorPlugins' = plan
    /\ pc' = "load"
    /\ UNCHANGED <<config, errors, datapoint, detection, alert_sent, alert_reason,
                   result, raised, calls, store>>

\* The caller is done with the outcome; execute()'s locals and the plugin
\* instances of the invocation are gone, the table stays.
Finish ==
    /\ pc \in {"returned", "raised"}
    /\ pc' = "idle"
    /\ raw' = NoRaw
    /\ execution_time' = 0
    /\ detectorPlugins' = <<>>
    /\ config' = NoConfig
    /\ errors' = <<>>
    /\ datapoint' = NoDataPoint
    /\ detection' = NoDetection
    /\ alert_sent' = FALSE
    /\ alert_reason' = NoReason
    /\ result' = NoResult
    /\ raised' = ""
    /\ calls' = <<>>
    /\ UNCHANGED store

\* An exception reaches execute()'s except clauses.
Fail(exc) ==
    IF ExecuteRaises(exc) THEN
        /\ pc' = "raised"
        /\ raised' = exc
        /\ UNCHANGED <<errors, result>>
    ELSE
        /\ pc' = "returned"
        /\ errors' = Append(errors, UnexpectedError(exc))
        /\ result' = DegradedResult(ConfigPath, execution_time, errors, exc)
        /\ UNCHANGED raised

\* Step 1: load and validate the configuration.
LoadConfig ==
    /\ pc = "load"
    /\ LET r == _load_config(raw)
       IN  IF r.exc = "" THEN
               /\ config' = r.config
               /\ pc' = "collect"
               /\ UNCHANGED <<errors, result, raised>>
           ELSE
               /\ Fail(r.exc)
               /\ UNCHANGED config
    /\ UNCHANGED <<raw, execution_time, detectorPlugins, datapoint,
                   detection, alert_sent, alert_reason, calls, store>>

\* Step 2: collect the current value.
CollectData ==
    /\ pc = "collect"
    /\ \E b \in CollectorBehaviours :
        LET r == _collect_data(b, execution_time)
        IN  /\ calls' = calls \o r.calls
            /\ IF r.exc = "" THEN
                   /\ datapoint' = r.datapoint
                   /\ pc' = IF config.storage_enabled THEN "save" ELSE "detect"
                   /\ UNCHANGED <<errors, result, raised>>
               ELSE
                   /\ Fail(r.exc)
                   /\ UNCHANGED datapoint
    /\ UNCHANGED <<raw, execution_time, detectorPlugins, config,
                   detection, alert_sent, alert_reason, store>>

\* Step 3: save to storage (reached only when storage is enabled).
SaveToStorage ==
    /\ pc = "save"
    /\ \E b \in StorageBehaviours :
        LET r == _save_to_storage(config, config.name, datapoint, b, store)
        IN  /\ calls' = calls \o r.calls
            /\ store' = r.rows
            /\ errors' = SaveErrors(errors, r.exc)
    /\ pc' = "detect"
    /\ UNCHANGED <<raw, execution_time, detectorPlugins, config,
                   datapoint, detection, alert_sent, alert_reason, result, raised>>

\* Step 4: run anomaly detection; step 5 follows only for an anomaly.
RunDetection ==
    /\ pc = "detect"
    /\ \E sb \in {b \in StorageBehaviours : b.outcome # "save_fail"} :
        LET r == _run_detection(config, config.name, datapoint, detectorPlugins, sb)
            d == IF r.exc = "" THEN r.detection
                 ELSE ErrorDetection(config.name, datapoint, r.exc)
        IN  /\ calls' = calls \o r.calls
            /\ errors' = IF r.exc = "" THEN errors
                         ELSE Append(errors, Err("Failed to run detection", r.exc))
            /\ detection' = d
            /\ pc' = IF d.is_anomaly THEN "alert" ELSE "aggregate"
    /\ UNCHANGED <<raw, execution_time, detectorPlugins, config,
                   datapoint, alert_sent, alert_reason, result, raised, store>>

\* Step 5: send the alert.
SendAlert ==
    /\ pc = "alert"
    /\ \E b \in AlerterBehaviours :
        LET r == _send_alert(detection, b)
        IN  /\ calls' = calls \o r.calls
            /\ errors' = errors \o r.errs
            /\ alert_sent' = r.sent
            /\ alert_reason' = r.reason
    /\ pc' = "aggregate"
    /\ UNCHANGED <<raw, execution_time, detectorPlugins, config,
                   datapoint, detection, result, raised, store>>

\* Step 6: build and return the CheckResult.
Aggregate ==
    /\ pc = "aggregate"
    /\ result' = CheckResult(config.name, datapoint, detection, alert_sent,
                             alert_reason, errors)
    /\ pc' = "returned"
    /\ UNCHANGED <<raw, execution_time, detectorPlugins, config,
                   errors, datapoint, detection, alert_sent, alert_reason, raised,
                   calls, store>>

\* One execute() after another, called directly.
Next ==
    \/ Execute /\ UNCHANGED <<btvars, unitvars>>
    \/ LoadConfig /\ UNCHANGED <<btvars, unitvars>>
    \/ CollectData /\ UNCHANGED <<btvars, unitvars>>
    \/ SaveToStorage /\ UNCHANGED <<btvars, unitvars>>
    \/ RunDetection /\ UNCHANGED <<btvars, unitvars>>
    \/ SendAlert /\ UNCHANGED <<btvars, unitvars>>
    \/ Aggregate /\ UNCHANGED <<btvars, unitvars>>
    \/ Finish /\ UNCHANGED <<btvars, unitvars>>

Spec == Init /\ [][Next]_vars

\* ------------------------------------------------ BacktestRunner.run(), actions
execvars == <<pc, raw, execution_time, detectorPlugins, config, errors,
              datapoint, detection, alert_sent, alert_reason, result, raised, calls,
              store>>

\* The configuration files backtests are run on: a single detector without and
\* with storage, a detector list, a template that does not render, no file.
BacktestRawConfigs ==
    {RawConfig("none", TRUE, "clickhouse", [id |-> "a", type |-> "mad"], <<>>, FALSE,
               FALSE, None),
     RawConfig("none", TRUE, "clickhouse", [id |-> "a", type |-> "mad"], <<>>, FALSE,
               TRUE, "sql"),
     RawConfig("none", TRUE, "clickhouse", NoDetector,
               <<[id |-> "a", type |-> "mad"], [id |-> "b", type |-> "threshold"]>>,
               TRUE, FALSE, None),
     RawConfig("template", TRUE, "clickhouse", [id |-> "a", type |-> "mad"], <<>>,
               FALSE, FALSE, None),
     RawConfig("missing", TRUE, "clickhouse", [id |-> "a", type |-> "mad"], <<>>,
               FALSE, FALSE, None)}

DateStrs(naive, aware) ==
    {NoDate, DateStr("empty", 0), DateStr("invalid", 0)}
    \cup {DateStr("date", t) : t \in naive} \cup {DateStr("aware", t) : t \in aware}

IntervalStrs ==
    {NoInterval, IntervalStr("empty", 0, ""), IntervalStr("oneword", 0, ""),
     IntervalStr("notint", 0, "minutes"), IntervalStr("interval", 1, "fortnights"),
     IntervalStr("interval", 1, "hour")}
    \cup {IntervalStr("interval", n, "minutes") : n \in -1..2}

BacktestConfigs ==
    {BacktestConfig(en, dls, ds, de, si) :
        en \in BOOLEAN,
        dls \in DateStrs({0, SecondsPerMinute}, {0}),
        ds \in DateStrs({SecondsPerMinute}, {SecondsPerMinute}),
        de \in DateStrs({k * SecondsPerMinute : k \in 1..(1 + MaxSpan)},
                        {SecondsPerMinute, 2 * SecondsPerMinute}),
        si \in IntervalStrs}

\* What the plugins behind the detectors do during a backtest step.
BacktestDetectorBehaviours ==
    {[outcome |-> "detect_throws", is_anomaly |-> FALSE, score |-> NoScore],
     [outcome |-> "returns", is_anomaly |-> TRUE, score |-> NumScore(4237)],
     [outcome |-> "returns", is_anomaly |-> FALSE, score |-> NumScore(1234)]}

\* The plugins of a backtest: the collector answers for the time it is asked
\* about, and the failures are of these classes.
BacktestEnvironment ==
    /\ datapoint.present => datapoint = DataPoint(execution_time, 42)
    /\ \A i \in DOMAIN errors :
        errors[i].exc \in {"", "CollectionError", "AttributeError", "DetectionError",
                           "AlertError"}

\* run() is called on a configuration file.
BacktestInit ==
    /\ pc = "idle"
    /\ raw \in BacktestRawConfigs
    /\ execution_time = 0
    /\ detectorPlugins = <<>>
    /\ config = NoConfig
    /\ errors = <<>>
    /\ datapoint = NoDataPoint
    /\ detection = NoDetection
    /\ alert_sent = FALSE
    /\ alert_reason = NoReason
    /\ result = NoResult
    /\ raised = ""
    /\ calls = <<>>
    /\ store = <<>>
    /\ backtest \in BacktestConfigs
    /\ bt_pc = "load"
    /\ current_time = 0
    /\ step_count = 0
    /\ total_steps = 0
    /\ results = <<>>
    /\ invoked = <<>>
    /\ detect_calls = 0
    /\ bt_result = NoBacktestResult
    /\ bt_raised = ""
    /\ unit_input = UnitInput(NoRawDetector, <<>>, FALSE)
    /\ unit_output = NoUnitOutput
    /\ self_detector = NoRawDetector
    /\ generated = <<>>
    /\ dtk_detections = <<>>
    /\ save_detections_enabled = FALSE
    /\ query = NoQuery
    /\ query_result = NoQueryResult
    /\ saved = <<>>
    /\ PlugIdle

\* run() raises.
RunRaises(exc) ==
    /\ bt_pc' = "raised"
    /\ bt_raised' = exc

\* run(): loader.load_file(str(config_path)).
RunLoad ==
    /\ bt_pc = "load"
    /\ IF load_file_no_context(raw, backtest).exc # ""
       THEN RunRaises(load_file_no_context(raw, backtest).exc)
       ELSE bt_pc' = "validate" /\ UNCHANGED bt_raised
    /\ UNCHANGED <<execvars, unitvars, backtest, current_time, step_count,
                   total_steps, results, invoked, detect_calls, bt_result>>

\* run(): the enabled check, _validate_backtest_config, and the parsing of the
\* dates and the interval.
RunValidate ==
    /\ bt_pc = "validate"
    /\ IF ValidateAndParse(backtest) # ""
       THEN RunRaises(ValidateAndParse(backtest))
       ELSE bt_pc' = "parse" /\ UNCHANGED bt_raised
    /\ UNCHANGED <<execvars, unitvars, backtest, current_time, step_count,
                   total_steps, results, invoked, detect_calls, bt_result>>

detection_start == _parse_datetime(backtest.detection_start).t
detection_end == _parse_datetime(backtest.detection_end).t
step_interval == _parse_interval(backtest.step_interval).seconds

\* _run_backtest_loop up to the loop: results, current_time, total_steps.
LoopSetup ==
    /\ bt_pc = "parse"
    /\ IF step_interval = 0 THEN
           /\ RunRaises("ZeroDivisionError")
           /\ UNCHANGED <<current_time, total_steps>>
       ELSE
           /\ bt_pc' = "loop"
           /\ current_time' = detection_start
           /\ total_steps' = IntDiv(detection_end - detection_start, step_interval)
           /\ UNCHANGED bt_raised
    /\ results' = <<>>
    /\ step_count' = 0
    /\ UNCHANGED <<execvars, unitvars, backtest, invoked, detect_calls, bt_result>>

\* One pass of the loop body up to the call of execute().
LoopStep ==
    /\ bt_pc = "loop"
    /\ current_time <= detection_end
    /\ step_count' = step_count + 1
    /\ IF ProgressExc(step_count + 1, total_steps) # "" THEN
           /\ RunRaises(ProgressExc(step_count + 1, total_steps))
           /\ UNCHANGED <<execvars, invoked>>
       ELSE
           /\ bt_pc' = "step"
           /\ pc' = "load"
           /\ execution_time' = StepExecutionTime(current_time)
           /\ invoked' = Append(invoked, StepExecutionTime(current_time))
           /\ \E plan \in [1..Len(get_detectors(MetricConfig(raw).config))
                               -> BacktestDetectorBehaviours] :
                detectorPlugins' = plan
           /\ UNCHANGED <<raw, config, errors, datapoint, detection, alert_sent,
                          alert_reason, result, raised, calls, store, bt_raised>>
    /\ UNCHANGED <<unitvars, backtest, current_time, total_steps, results,
                   detect_calls, bt_result>>

\* execute() returned: results.append(result); current_time += step_interval.
LoopAppend ==
    /\ bt_pc = "step"
    /\ pc = "returned"
    /\ results' = AppendResult(results, result)
    /\ detect_calls' = detect_calls
                       + Cardinality({i \in DOMAIN calls :
                                        calls[i].role = "detector"
                                        /\ calls[i].op = "detect"})
    /\ IF current_time + step_interval < DatetimeMin THEN
           /\ RunRaises("OverflowError")
           /\ UNCHANGED current_time
       ELSE
           /\ bt_pc' = "loop"
           /\ current_time' = current_time + step_interval
           /\ UNCHANGED bt_raised
    /\ pc' = "idle"
    /\ execution_time' = 0
    /\ detectorPlugins' = <<>>
    /\ config' = NoConfig
    /\ errors' = <<>>
    /\ datapoint' = NoDataPoint
    /\ detection' = NoDetection
    /\ alert_sent' = FALSE
    /\ alert_reason' = NoReason
    /\ result' = NoResult
    /\ calls' = <<>>
    /\ UNCHANGED <<raw, raised, store, unitvars, backtest, step_count, total_steps,
                   invoked, bt_result>>

\* execute() raised: the exception leaves run().
LoopExecuteRaised ==
    /\ bt_pc = "step"
    /\ pc = "raised"
    /\ RunRaises(raised)
    /\ UNCHANGED <<execvars, unitvars, backtest, current_time, step_count,
                   total_steps, results, invoked, detect_calls, bt_result>>

\* The loop condition fails: run() aggregates and returns the BacktestResult.
RunAggregate ==
    /\ bt_pc = "loop"
    /\ current_time > detection_end
    /\ bt_result' = BacktestResult(MetricName, results)
    /\ bt_pc' = "returned"
    /\ UNCHANGED <<execvars, unitvars, backtest, current_time, step_count,
                   total_steps, results, invoked, detect_calls, bt_raised>>

\* A stage of the execute() the loop called.
InBacktest(Stage) ==
    /\ bt_pc = "step"
    /\ Stage
    /\ UNCHANGED <<btvars, unitvars>>
    /\ BacktestEnvironment'

BacktestNext ==
    \/ RunLoad
    \/ RunValidate
    \/ LoopSetup
    \/ LoopStep
    \/ InBacktest(LoadConfig)
    \/ InBacktest(CollectData)
    \/ InBacktest(SaveToStorage)
    \/ InBacktest(RunDetection)
    \/ InBacktest(SendAlert)
    \/ InBacktest(Aggregate)
    \/ LoopAppend
    \/ LoopExecuteRaised
    \/ RunAggregate

BacktestSpec == BacktestInit /\ [][BacktestNext]_vars

\* ------------------------------------------- MetricConfig validation, actions
ValidationInit ==
    /\ pc = "idle"
    /\ raw = NoRaw
    /\ execution_time = 0
    /\ detectorPlugins = <<>>
    /\ config = NoConfig
    /\ errors = <<>>
    /\ datapoint = NoDataPoint
    /\ detection = NoDetection
    /\ alert_sent = FALSE
    /\ alert_reason = NoReason
    /\ result = NoResult
    /\ raised = ""
    /\ calls = <<>>
    /\ store = <<>>
    /\ backtest = NoBacktest
    /\ bt_pc = "idle"
    /\ current_time = 0
    /\ step_count = 0
    /\ total_steps = 0
    /\ results = <<>>
    /\ invoked = <<>>
    /\ detect_calls = 0
    /\ bt_result = NoBacktestResult
    /\ bt_raised = ""
    /\ unit_input \in UnitInputs
    /\ unit_output = NoUnitOutput
    /\ self_detector = NoRawDetector
    /\ generated = <<>>
    /\ dtk_detections = <<>>
    /\ save_detections_enabled = FALSE
    /\ query = NoQuery
    /\ query_result = NoQueryResult
    /\ saved = <<>>
    /\ PlugIdle

\* MetricConfig(**mapping) is evaluated.
Validate ==
    /\ ~unit_output.present
    /\ unit_output' = ValidateUnit(unit_input)
    /\ UNCHANGED <<execvars, btvars, unit_input, libvars, plugvars>>

ValidationNext == Validate

ValidationSpec == ValidationInit /\ [][ValidationNext]_vars

\* --------------------------------------------------- DetectorConfig, actions
\* The parameter mappings of a detector: up to one value per key, the keys in
\* either insertion order.
ParamPairs ==
    {<<"n_sigma", "3.0">>, <<"n_sigma", "5.0">>,
     <<"window_size", "30 days">>, <<"window_size", "7 days">>}

ParamMaps ==
    {<<>>} \cup {Append(<<>>, p) : p \in ParamPairs}
    \cup {pq \in ParamPairs \X ParamPairs : pq[1][1] # pq[2][1]}

\* Detector types with registered defaults, and one without an entry.
DetectorTypes == {"mad", "zscore", "threshold", "custom"}

\* A DetectorConfig has passed its field validators.
ResolverInit ==
    /\ pc = "idle"
    /\ raw = NoRaw
    /\ execution_time = 0
    /\ detectorPlugins = <<>>
    /\ config = NoConfig
    /\ errors = <<>>
    /\ datapoint = NoDataPoint
    /\ detection = NoDetection
    /\ alert_sent = FALSE
    /\ alert_reason = NoReason
    /\ result = NoResult
    /\ raised = ""
    /\ calls = <<>>
    /\ store = <<>>
    /\ backtest = NoBacktest
    /\ bt_pc = "idle"
    /\ current_time = 0
    /\ step_count = 0
    /\ total_steps = 0
    /\ results = <<>>
    /\ invoked = <<>>
    /\ detect_calls = 0
    /\ bt_result = NoBacktestResult
    /\ bt_raised = ""
    /\ unit_input = UnitInput(NoRawDetector, <<>>, FALSE)
    /\ unit_output = NoUnitOutput
    /\ self_detector \in {RawDetector(i, t, ps) :
                            i \in {None, "a"}, t \in DetectorTypes, ps \in ParamMaps}
    /\ generated = <<>>
    /\ dtk_detections = <<>>
    /\ save_detections_enabled = FALSE
    /\ query = NoQuery
    /\ query_result = NoQueryResult
    /\ saved = <<>>
    /\ PlugIdle

\* self._generate_id() is called: it reads type and params and writes nothing.
GenerateId ==
    /\ Len(generated) < MaxResolves
    /\ generated' = Append(generated,
                           _generate_id(self_detector.type, self_detector.params))
    /\ UNCHANGED <<execvars, btvars, unit_input, unit_output, self_detector,
                   dtk_detections, save_detections_enabled, query, query_result,
                   saved, plugvars>>

\* The model validator ensure_id_exists runs.
EnsureIdExists ==
    /\ self_detector' =
        [self_detector EXCEPT !.id = ensure_id_exists(self_detector.id,
                                                      self_detector.type,
                                                      self_detector.params)]
    /\ UNCHANGED <<execvars, btvars, unit_input, unit_output, generated,
                   dtk_detections, save_detections_enabled, query, query_result,
                   saved, plugvars>>

ResolverNext == GenerateId \/ EnsureIdExists

ResolverSpec == ResolverInit /\ [][ResolverNext]_vars

\* ----------------------------------------------- history queries (SQLStorage)
\* A `window` argument that is an int rather than a string.
IntWindow(n) == [kind |-> "int", amount |-> n, unit |-> ""]

\* SQLStorage.save_detection: one row per call when detections are saved.
save_detection(rows, enabled, metric, det) ==
    IF ~enabled THEN rows
    ELSE Append(rows, [metric_name |-> metric, detected_at |-> det.timestamp,
                       is_anomaly |-> det.is_anomaly])

\* ORDER BY on the rows `idx` of a table whose i-th row has the sort key
\* ts[i]: every order of these rows that respects the keys (rows with equal
\* keys come in an order the database chooses).
OrderBy(ts, idx, desc) ==
    {f \in [1..Cardinality(idx) -> idx] :
        /\ \A i, j \in DOMAIN f : i # j => f[i] # f[j]
        /\ \A i, j \in DOMAIN f :
            i < j => IF desc THEN ts[f[i]] >= ts[f[j]] ELSE ts[f[i]] <= ts[f[j]]}

\* LIMIT n
Limit(f, n) == [k \in 1..(IF n < Len(f) THEN n ELSE Len(f)) |-> f[k]]

\* The DataFrame read from the rows a statement selected, or the exception.
Rows(table, f) == [exc |-> "", rows |-> [k \in DOMAIN f |-> table[f[k]]], present |-> TRUE]

QueryRaises(exc) == [exc |-> exc, rows |-> <<>>, present |-> TRUE]

\* query_datapoints on a string window: ValueError, or the timedelta in seconds.
ParseWindow(window) ==
    IF window.kind \in {"empty", "oneword", "threewords"} THEN
        [exc |-> "ValueError", seconds |-> 0]
    ELSE IF window.kind = "notint" THEN [exc |-> "ValueError", seconds |-> 0]
    ELSE IF Lower(window.unit) \in {"day", "days"} THEN
        [exc |-> "", seconds |-> window.amount * UnitSeconds("day")]
    ELSE IF Lower(window.unit) \in {"hour", "hours"} THEN
        [exc |-> "", seconds |-> window.amount * UnitSeconds("hour")]
    ELSE IF Lower(window.unit) \in {"minute", "minutes"} THEN
        [exc |-> "", seconds |-> window.amount * UnitSeconds("minute")]
    ELSE [exc |-> "ValueError", seconds |-> 0]

\* SQLStorage.query_datapoints: the DataFrames the database may answer with,
\* or the exception raised.
query_datapoints(table, metric_name, window, end_time) ==
    LET ts == [i \in DOMAIN table |-> table[i].collected_at]
        upto == {i \in DOMAIN table :
                    /\ table[i].metric_name = metric_name
                    /\ table[i].collected_at <= end_time}
    IN  IF window.kind = "int" THEN
            {Rows(table, Limit(f, window.amount)) : f \in OrderBy(ts, upto, TRUE)}
        ELSE IF ParseWindow(window).exc # "" THEN {QueryRaises("StorageError")}
        ELSE {Rows(table, f) :
                f \in OrderBy(ts,
                              {i \in upto : table[i].collected_at
                                            >= end_time - ParseWindow(window).seconds},
                              FALSE)}

\* query_detections from its window argument to start_time: the exception
\* raised, or end_time - start_time in seconds.
DetectionsWindow(window) ==
    IF window.kind = "int" THEN
        [exc |-> "", seconds |-> window.amount * UnitSeconds("minute")]
    ELSE IF window.kind = "empty" THEN [exc |-> "IndexError", seconds |-> 0]
    ELSE IF window.kind = "oneword" THEN
        [exc |-> IF window.unit # "" THEN "ValueError" ELSE "IndexError",
         seconds |-> 0]
    ELSE IF window.kind = "notint" THEN [exc |-> "ValueError", seconds |-> 0]
    ELSE IF Lower(window.unit) \in {"day", "days"} THEN
        [exc |-> "", seconds |-> window.amount * UnitSeconds("day")]
    ELSE IF Lower(window.unit) \in {"hour", "hours"} THEN
        [exc |-> "", seconds |-> window.amount * UnitSeconds("hour")]
    ELSE IF Lower(window.unit) \in {"minute", "minutes"} THEN
        [exc |-> "", seconds |-> window.amount * UnitSeconds("minute")]
    ELSE [exc |-> "ValueError", seconds |-> 0]

\* SQLStorage.query_detections: only SQLAlchemyError is caught, so what the
\* window parsing raises leaves as it is.
query_detections(table, enabled, metric_name, window, end_time) ==
    LET ts == [i \in DOMAIN table |-> table[i].detected_at]
    IN  IF ~enabled THEN {Rows(table, <<>>)}
        ELSE IF DetectionsWindow(window).exc # "" THEN
            {QueryRaises(DetectionsWindow(window).exc)}
        ELSE {Rows(table, f) :
                f \in OrderBy(ts,
                              {i \in DOMAIN table :
                                /\ table[i].metric_name = metric_name
                                /\ table[i].detected_at
                                    >= end_time - DetectionsWindow(window).seconds
                                /\ table[i].detected_at <= end_time},
                              TRUE)}

\* ------------------------------------------------------ SQLStorage, actions
Metrics == {MetricName, "orders"}

\* The end_time of the queries, and timestamps around it: after it, at it,
\* one minute before it, a second more than that, and more than a day before.
Now == 2 * UnitSeconds("week")

StoreTimes ==
    {Now + 1, Now, Now - UnitSeconds("minute"), Now - UnitSeconds("minute") - 1,
     Now - UnitSeconds("day") - 1}

\* The points saved: a value at each of these times, and a point without a
\* value (missing data) at the time of the query.
StorePoints == {DataPoint(t, 42) : t \in StoreTimes} \cup {DataPoint(Now, Null)}

DetectionTimes == {Now, Now - UnitSeconds("day") - 1}

WindowUnits ==
    {"second", "seconds", "minute", "minutes", "hour", "hours", "day", "days",
     "week", "weeks", "DAYS", "Hours", "fortnights"}

\* Window arguments: row counts, durations, and malformed strings ("", "days",
\* "10", "1 days ago", "x minutes").
Windows ==
    {IntWindow(n) : n \in 1..2}
    \cup {IntervalStr("interval", n, u) : n \in 1..2, u \in WindowUnits}
    \cup {IntervalStr("empty", 0, ""), IntervalStr("oneword", 0, "days"),
          IntervalStr("oneword", 10, ""), IntervalStr("threewords", 1, "days"),
          IntervalStr("notint", 0, "minutes")}

\* A storage over empty tables.
StorageInit ==
    /\ pc = "idle"
    /\ raw = NoRaw
    /\ execution_time = 0
    /\ detectorPlugins = <<>>
    /\ config = NoConfig
    /\ errors = <<>>
    /\ datapoint = NoDataPoint
    /\ detection = NoDetection
    /\ alert_sent = FALSE
    /\ alert_reason = NoReason
    /\ result = NoResult
    /\ raised = ""
    /\ calls = <<>>
    /\ store = <<>>
    /\ backtest = NoBacktest
    /\ bt_pc = "idle"
    /\ current_time = 0
    /\ step_count = 0
    /\ total_steps = 0
    /\ results = <<>>
    /\ invoked = <<>>
    /\ detect_calls = 0
    /\ bt_result = NoBacktestResult
    /\ bt_raised = ""
    /\ unit_input = UnitInput(NoRawDetector, <<>>, FALSE)
    /\ unit_output = NoUnitOutput
    /\ self_detector = NoRawDetector
    /\ generated = <<>>
    /\ dtk_detections = <<>>
    /\ save_detections_enabled \in BOOLEAN
    /\ query = NoQuery
    /\ query_result = NoQueryResult
    /\ saved = <<>>
    /\ PlugIdle

\* The variables a storage operation leaves alone.
nonstorage ==
    <<pc, raw, execution_time, detectorPlugins, config, errors, datapoint,
      detection, alert_sent, alert_reason, result, raised, calls, btvars,
      unit_input, unit_output, self_detector, generated, save_detections_enabled,
      plugvars>>

\* storage.save_datapoint(metric_name, datapoint)
SaveDatapoint ==
    /\ ~query.present
    /\ Len(store) + Len(dtk_detections) < MaxRows
    /\ \E m \in Metrics, dp \in StorePoints :
        /\ store' = save_datapoint(store, m, dp)
        /\ saved' = Append(saved, dp)
    /\ UNCHANGED <<nonstorage, dtk_detections, query, query_result>>

\* storage.save_detection(metric_name, detection)
SaveDetection ==
    /\ ~query.present
    /\ Len(store) + Len(dtk_detections) < MaxRows
    /\ \E m \in Metrics, t \in DetectionTimes :
        dtk_detections' =
            save_detection(dtk_detections, save_detections_enabled, m,
                           DetectionResult(m, t, 42, FALSE, NoScore, ""))
    /\ UNCHANGED <<nonstorage, store, query, query_result, saved>>

\* storage.query_datapoints(metric_name, window, end_time)
QueryDatapoints ==
    /\ ~query.present
    /\ \E m \in Metrics, w \in Windows :
        /\ query' = [op |-> "query_datapoints", metric_name |-> m, window |-> w,
                     end_time |-> Now, present |-> TRUE]
        /\ query_result' \in query_datapoints(store, m, w, Now)
    /\ UNCHANGED <<nonstorage, store, dtk_detections, saved>>

\* storage.query_detections(metric_name, window, end_time)
QueryDetections ==
    /\ ~query.present
    /\ \E m \in Metrics, w \in Windows :
        /\ query' = [op |-> "query_detections", metric_name |-> m, window |-> w,
                     end_time |-> Now, present |-> TRUE]
        /\ query_result' \in query_detections(dtk_detections,
                                              save_detections_enabled, m, w, Now)
    /\ UNCHANGED <<nonstorage, store, dtk_detections, saved>>

StorageNext == SaveDatapoint \/ SaveDetection \/ QueryDatapoints \/ QueryDetections

StorageSpec == StorageInit /\ [][StorageNext]_vars

\* ------------------------------------------------------------------- claims
Terminal == pc \in {"returned", "raised"}

CallsWhere(role, ops, outs) ==
    {i \in DOMAIN calls :
        calls[i].role = role /\ calls[i].op \in ops /\ calls[i].out \in outs}

Count(role, ops, outs) == Cardinality(CallsWhere(role, ops, outs))

HasCall(role, op, out) == CallsWhere(role, {op}, {out}) # {}

WriteOps == {"save", "save_datapoint"}

ErrorsOf(errs, stages) == {i \in DOMAIN errs : errs[i].stage \in stages}

\* The result the plugin behind detector i returns for the collected point.
GenuineResult(i) ==
    DetectionResult(config.name, datapoint.timestamp, datapoint.value,
                    detectorPlugins[i].is_anomaly, detectorPlugins[i].score, "")

\* The DetectionResults a CheckResult holds: its one `detection` field.
ResultDetections(res) == <<res.detection>>

\* C1: when collection succeeds, the storage write throws and the detector
\* succeeds, execute() returns (does not raise) a CheckResult whose errors hold
\* the storage failure and whose detection is the detector's genuine result.
C1_StorageFailureIsolated ==
    (/\ Terminal
     /\ datapoint.present
     /\ Count("storage", WriteOps, {"raise", "missing"}) > 0
     /\ HasCall("detector", "detect", "ok"))
    => /\ pc = "returned"
       /\ raised = ""
       /\ result.present
       /\ ErrorsOf(result.errors, {"Failed to save to storage"}) # {}
       /\ result.detection = GenuineResult(1)

C1_Witness ==
    /\ pc = "returned"
    /\ HasCall("storage", "save", "raise")
    /\ HasCall("detector", "detect", "ok")
    /\ result.detection.is_anomaly
    /\ ErrorsOf(result.errors, {"Failed to save to storage"}) # {}

\* C2: with two configured detectors of which the first throws and the second
\* succeeds, the returned detections are the error result of the first and the
\* genuine result of the second, in configured order, and the second ran.
C2_DetectorIsolation ==
    (/\ pc = "returned"
     /\ datapoint.present
     /\ Len(get_detectors(config)) = 2
     /\ detectorPlugins[1].outcome = "detect_throws"
     /\ detectorPlugins[2].outcome = "returns"
     /\ ~HasCall("storage", "construct", "raise")
     /\ (config.storage_enabled
            => StorageRegistry(StorageTypeOf(config)) # Unregistered))
    => /\ Len(ResultDetections(result)) = 2
       /\ ResultDetections(result)[1] =
              ErrorDetection(config.name, datapoint, "DetectionError")
       /\ ResultDetections(result)[2] = GenuineResult(2)
       /\ CallsWhere("detector", {"detect"}, {"ok", "raise"}) # {}

\* C3: when collection succeeds, each configured detector is invoked exactly
\* once and the CheckResult holds one DetectionResult per configured detector,
\* in configured order (stated for detectors whose plugins resolve and
\* construct and a storage that constructs).
C3_OneResultPerDetector ==
    (/\ pc = "returned"
     /\ datapoint.present
     /\ \A i \in DOMAIN detectorPlugins :
            detectorPlugins[i].outcome \in {"returns", "detect_throws"}
     /\ ~HasCall("storage", "construct", "raise")
     /\ (config.storage_enabled
            => StorageRegistry(StorageTypeOf(config)) # Unregistered))
    => /\ Len(ResultDetections(result)) = Len(get_detectors(config))
       /\ \A i \in 1..Len(get_detectors(config)) :
            Cardinality({k \in CallsWhere("detector", {"detect"}, {"ok", "raise"}) :
                            calls[k].idx = i}) = 1

\* C4: when the collect stage fails, execute() returns a degraded CheckResult
\* (errors non-empty, zero DataPoint, non-anomalous detection, no alert) and no
\* storage, detector or alerter operation happens.
C4_CollectFailureDegrades ==
    (Terminal /\ config.present /\ ~datapoint.present)
    => /\ pc = "returned"
       /\ raised = ""
       /\ result.present
       /\ Len(result.errors) > 0
       /\ result.datapoint = DataPoint(execution_time, 0)
       /\ ~result.detection.is_anomaly
       /\ ~result.alert_sent
       /\ \A i \in DOMAIN calls : calls[i].role = "collector"
       /\ store = <<>>

C4_Witness ==
    /\ pc = "returned"
    /\ config.present
    /\ ~datapoint.present
    /\ HasCall("collector", "collect", "raise")
    /\ result.present

\* C5: when loading or validating the configuration fails, execute() raises
\* ConfigurationError, returns no CheckResult and touches no plugin.
C5_ConfigFailureRaises ==
    (Terminal /\ load_file(raw).exc # "")
    => /\ pc = "raised"
       /\ raised = "ConfigurationError"
       /\ ~result.present
       /\ calls = <<>>
       /\ ~config.present

C5_Witness ==
    /\ pc = "raised"
    /\ raw.fault = "none"
    /\ raw.detectors_set
    /\ raw.detector # NoDetector

\* C6: the returned alert_sent is true exactly when the alerter's send()
\* returned true for an anomalous DetectionResult of the invocation, whatever
\* score (null and infinite included) the result carries.
C6_AlertSentIffSendSucceeded ==
    pc = "returned"
    => (result.alert_sent <=> HasCall("alerter", "send", "True"))

\* C7: when the alerter's construction or send() throws, or send() returns
\* false, execute() returns with exactly one alert failure in errors,
\* alert_sent false, no alert_reason, and the datapoint and detection of the
\* earlier stages unchanged.
AlertFailureStages ==
    {"Failed to send alert", "Alert sending failed (returned False)"}

C7_AlertFailureIsolated ==
    (/\ Terminal
     /\ \/ HasCall("alerter", "construct", "raise")
        \/ HasCall("alerter", "send", "raise")
        \/ HasCall("alerter", "send", "False"))
    => /\ pc = "returned"
       /\ raised = ""
       /\ Cardinality(ErrorsOf(result.errors, AlertFailureStages)) = 1
       /\ ~result.alert_sent
       /\ result.alert_reason = NoReason
       /\ datapoint.present
       /\ result.datapoint = datapoint
       /\ result.detection = GenuineResult(1)
       /\ result.detection.is_anomaly

C7_Witness ==
    /\ pc = "returned"
    /\ HasCall("alerter", "send", "False")
    /\ result.detection.is_anomaly
    /\ ~result.alert_sent

\* C8 as stated: exactly one alerter instance and one send() for the anomalous
\* result, none for a non-anomalous one.
C8_SendOncePerAnomaly ==
    (pc = "returned" /\ datapoint.present)
    => IF result.detection.is_anomaly
       THEN /\ Count("alerter", {"construct"}, {"ok"}) = 1
            /\ Count("alerter", {"send"}, {"True", "False", "raise"}) = 1
       ELSE /\ CallsWhere("alerter", {"construct", "send"},
                          {"ok", "raise", "True", "False"}) = {}
            /\ ~result.alert_sent

\* C8 (amended): at most one alerter construction per anomalous result, and
\* send() is called exactly once on the instance when that construction
\* succeeded, not at all when alert conditions, resolution or construction
\* failed; a non-anomalous result gets no alerter instance, no send() and
\* alert_sent false.
C8_SendOncePerConstructedAlerter ==
    pc = "returned"
    => IF result.detection.is_anomaly
       THEN /\ Count("alerter", {"construct"}, {"ok", "raise"}) <= 1
            /\ Count("alerter", {"send"}, {"True", "False", "raise"})
                  = Count("alerter", {"construct"}, {"ok"})
       ELSE /\ CallsWhere("alerter", {"construct", "send"},
                          {"ok", "raise", "True", "False"}) = {}
            /\ ~result.alert_sent

C8_Witness ==
    /\ pc = "returned"
    /\ result.detection.is_anomaly
    /\ Count("alerter", {"construct"}, {"ok"}) = 1
    /\ Count("alerter", {"send"}, {"False"}) = 1

\* C9: when execute() returns or raises, every collector, storage and alerter
\* instance constructed in the invocation has had close() called.
C9_AllInstancesClosed ==
    Terminal
    => \A role \in {"collector", "storage", "alerter"} :
          Count(role, {"close"}, {"ok", "raise"}) = Count(role, {"construct"}, {"ok"})

\* C10: with storage enabled and a storage that implements the Storage
\* contract and does not fail, a successful execute() writes the collected
\* point under the metric name once through save_datapoint, records no storage
\* error, and the row is there for a later query.
C10_DatapointPersisted ==
    (/\ pc = "returned"
     /\ datapoint.present
     /\ config.storage_enabled
     /\ StorageRegistry(StorageTypeOf(config)) = SQLStorage
     /\ CallsWhere("storage", {"construct"} \cup WriteOps, {"raise"}) = {})
    => /\ Count("storage", {"save_datapoint"}, {"ok"}) = 1
       /\ ErrorsOf(result.errors, {"Failed to save to storage"}) = {}
       /\ \E i \in DOMAIN store :
              store[i] = [metric_name |-> config.name,
                          collected_at |-> datapoint.timestamp,
                          value |-> datapoint.value]

\* --------------------------------------------------- claims on the backtest
BacktestDone == bt_pc \in {"returned", "raised"}

\* run() got past loading, validation and parsing.
Validated ==
    /\ load_file_no_context(raw, backtest).exc = ""
    /\ ValidateAndParse(backtest) = ""

\* The execution times T0, T0+S, ... that do not exceed detection_end (S > 0).
ExpectedTimes ==
    {detection_start + k * step_interval : k \in 0..MaxSpan}
    \cap (detection_start..detection_end)

\* C11: for a validated backtest with a positive step_interval S over a period
\* of length D, run() invokes execute exactly floor(D/S) + 1 times, at T0, T0+S,
\* ... in increasing order, none after detection_end, and returns one result per
\* invocation.
C11_BacktestStepCount ==
    (BacktestDone /\ Validated /\ raw.fault = "none" /\ step_interval > 0)
    => /\ bt_pc = "returned"
       /\ Len(invoked) = ((detection_end - detection_start) \div step_interval) + 1
       /\ \A k \in DOMAIN invoked :
            /\ invoked[k] = detection_start + (k - 1) * step_interval
            /\ invoked[k] <= detection_end
       /\ Len(bt_result.results) = Len(invoked)

\* C12: a validated backtest whose step_interval has a zero or negative
\* amount still ends with run() returning a BacktestResult rather than raising,
\* and its loop never moves to a time before detection_start.
C12_BacktestTerminates ==
    (Validated /\ raw.fault = "none" /\ step_interval <= 0)
    => /\ bt_pc # "raised"
       /\ (bt_pc \in {"loop", "step"} => current_time >= detection_start)

\* C13: the step count is only displayed: for every validated backtest, also
\* one whose step_interval exceeds the detection period, its computation never
\* aborts run(), and run() returns one result per time T0 + k*S <= detection_end.
C13_ProgressDoesNotAlterOutcome ==
    (Validated /\ raw.fault = "none" /\ step_interval > 0)
    => /\ bt_raised # "ZeroDivisionError"
       /\ (BacktestDone =>
            /\ bt_pc = "returned"
            /\ Len(bt_result.results) = Cardinality(ExpectedTimes))

\* The conditions under which a backtest section must be rejected.
Missing(s) == s.kind \in {"none", "empty"}

IsDate(s) == s.kind \in {"date", "aware"}

\* a >= b for two dates that can be ordered (both with or both without offset).
NotBefore(a, b) == IsDate(a) /\ IsDate(b) /\ a.kind = b.kind /\ a.t >= b.t

BacktestInvalid ==
    \/ ~backtest.enabled
    \/ Missing(backtest.data_load_start)
    \/ Missing(backtest.detection_start)
    \/ Missing(backtest.detection_end)
    \/ Missing(backtest.step_interval)
    \/ NotBefore(backtest.data_load_start, backtest.detection_start)
    \/ NotBefore(backtest.detection_start, backtest.detection_end)

\* C14: when backtest.enabled is false, one of the four fields is missing,
\* data_load_start >= detection_start or detection_start >= detection_end,
\* run() raises ConfigurationError and execute is never invoked.
C14_ValidationPrecedesExecution ==
    BacktestInvalid
    => /\ invoked = <<>>
       /\ bt_pc \in {"load", "validate", "raised"}
       /\ (bt_pc = "raised" => bt_raised = "ConfigurationError")

\* C15: a step whose execute() returned a CheckResult with errors is appended like
\* any other and the loop goes on: between steps the results list has one entry
\* per execute invocation, the k-th for the k-th execution time, and
\* total_checks is the number of steps performed.
C15_FailingStepsKept ==
    /\ (bt_pc \in {"loop", "returned"} =>
            /\ Len(results) = Len(invoked)
            /\ \A k \in DOMAIN results :
                /\ results[k].present
                /\ results[k].datapoint.timestamp = invoked[k])
    /\ (bt_pc = "returned" =>
            /\ bt_result.results = results
            /\ bt_result.total_checks = Len(invoked))

C15_Witness ==
    /\ bt_pc = "returned"
    /\ bt_result.total_checks = 3
    /\ bt_result.results[1].errors # <<>>
    /\ bt_result.results[1].errors[1].stage = "Unexpected error during metric check"
    /\ bt_result.results[2].errors # <<>>
    /\ bt_result.results[2].errors[1].stage = "Failed to run detection"
    /\ bt_result.results[3].errors = <<>>

\* C16: every BacktestResult has 0 <= alerts_sent <= anomalies_detected <= the
\* number of detector invocations of the run, and for a unit with one detector
\* anomalies_detected <= total_checks.
C16_AggregateCountsOrdered ==
    bt_pc = "returned"
    => /\ 0 <= bt_result.alerts_sent
       /\ bt_result.alerts_sent <= bt_result.anomalies_detected
       /\ bt_result.anomalies_detected <= detect_calls
       /\ (Len(get_detectors(MetricConfig(raw).config)) = 1
            => bt_result.anomalies_detected <= bt_result.total_checks)

C16_Witness ==
    /\ bt_pc = "returned"
    /\ 0 < bt_result.alerts_sent
    /\ bt_result.alerts_sent < bt_result.anomalies_detected
    /\ bt_result.anomalies_detected < detect_calls
    /\ detect_calls < bt_result.total_checks

\* C17: the loop calls execute() the way a direct call does, with fresh locals,
\* the same file and store, and execution_time = detection_start + k *
\* step_interval for its k-th call (k from 0), and appends exactly the
\* CheckResult execute() returned.
C17_BacktestIsProduction ==
    [][/\ (bt_pc = "loop" /\ bt_pc' = "step") =>
            /\ pc = "idle" /\ pc' = "load"
            /\ execution_time' = detection_start + Len(results) * step_interval
            /\ raw' = raw /\ store' = store
            /\ config' = NoConfig /\ errors' = <<>> /\ calls' = <<>>
            /\ result' = NoResult
       /\ (bt_pc = "step" /\ bt_pc' = "step") =>
            UNCHANGED <<btvars, raw, execution_time, detectorPlugins>>
       /\ (bt_pc = "step" /\ bt_pc' # "step" /\ pc = "returned") =>
            results' = Append(results, result)]_vars

C17_Witness ==
    /\ bt_pc = "loop"
    /\ Len(results) = 2
    /\ results[2].datapoint = DataPoint(detection_start + step_interval, 42)
    /\ results[2].detection.is_anomaly
    /\ results[2].alert_sent
    /\ config = NoConfig

\* C18: with cooldown_minutes = C > 0, no two steps of a backtest whose
\* detection timestamps are less than C minutes apart both have alert_sent.
C18_AlertsRespectCooldown ==
    \A i, j \in DOMAIN results :
        (i < j /\ results[i].alert_sent /\ results[j].alert_sent)
        => results[j].detection.timestamp - results[i].detection.timestamp
            >= CooldownMinutes * SecondsPerMinute

\* --------------------------------------------- claims on the error policy
\* C19: a ConfigurationError arising during execute(), one raised by a plugin
\* constructor included, is raised to the caller before any stage has run; it
\* is never recorded in a returned CheckResult.
C19_ConfigurationErrorFatal ==
    /\ (pc = "raised" => raised = "ConfigurationError" /\ calls = <<>>)
    /\ (pc = "returned" =>
            \A i \in DOMAIN result.errors :
                result.errors[i].exc # "ConfigurationError")

\* ------------------------------------------------ claims on detector ids
\* The ids the detectors of the input resolve to (None for an id the id
\* validator rejects).
ResolvedIds ==
    LET ds == IF unit_input.detectors_set THEN unit_input.detectors
              ELSE IF unit_input.detector = NoRawDetector THEN <<>>
              ELSE <<unit_input.detector>>
    IN  [i \in 1..Len(ds) |->
            IF ds[i].id = None
            THEN sha256_8(ds[i].type,
                          SelectSeq(ds[i].params,
                                    LAMBDA p : p \notin DETECTOR_DEFAULTS(ds[i].type)))
            ELSE IF ds[i].id = " a " THEN "a"
            ELSE IF ds[i].id \in {"  ", "a b"} THEN None
            ELSE ds[i].id]

\* C20: an accepted unit has pairwise distinct detector ids, and a detector
\* list in which two detectors resolve to the same id is rejected.
C20_DetectorIdsDistinct ==
    unit_output.present
    => /\ (unit_output.exc = "" =>
            \A i, j \in DOMAIN unit_output.detectors :
                i # j => unit_output.detectors[i].id # unit_output.detectors[j].id)
       /\ ((\E i, j \in DOMAIN ResolvedIds : i # j /\ ResolvedIds[i] = ResolvedIds[j])
            => unit_output.exc # "")

\* Rejected: an auto-generated id (n_sigma at its default) meets a manual id
\* that spells the same hash.
C20_Witness ==
    /\ unit_output.present
    /\ unit_output.exc # ""
    /\ unit_input.detectors_set
    /\ Len(unit_input.detectors) = 2
    /\ unit_input.detectors[1] = RawDetector(None, "mad", << <<"n_sigma", "3.0">> >>)
    /\ unit_input.detectors[2] = RawDetector("1743b356", "threshold", <<>>)

\* ------------------------------------- claims on the detector forms and ids
\* The detectors of the input mapping, in configured order.
InputDetectors ==
    IF unit_input.detectors_set THEN unit_input.detectors
    ELSE IF unit_input.detector = NoRawDetector THEN <<>>
    ELSE <<unit_input.detector>>

\* C21: validation accepts a unit only if exactly one of `detector` and
\* `detectors` is present; a unit with both, a unit with neither and a unit
\* with an empty `detectors` list are rejected.
C21_ExactlyOneDetectorForm ==
    LET one == unit_input.detector # NoRawDetector
        many == unit_input.detectors_set
    IN  unit_output.present
        => /\ (unit_output.exc = "" => (one /\ ~many) \/ (~one /\ many))
           /\ (one /\ many => unit_output.exc # "")
           /\ (~one /\ ~many => unit_output.exc # "")
           /\ (many /\ Len(unit_input.detectors) = 0 => unit_output.exc # "")

\* Rejected: both forms are present, each of them valid on its own.
C21_Witness ==
    /\ unit_output.present
    /\ unit_output.exc # ""
    /\ unit_input.detector = RawDetector(None, "mad", <<>>)
    /\ unit_input.detectors = <<RawDetector(None, "mad", <<>>)>>
    /\ unit_input.detectors_set

\* C22: for every accepted unit get_detectors() returns a non-empty list in
\* configured order: the one detector for the singular form, the configured
\* list, element by element, for the plural form.
C22_GetDetectorsInOrder ==
    (unit_output.present /\ unit_output.exc = "")
    => /\ Len(get_detectors(unit_output)) > 0
       /\ Len(get_detectors(unit_output)) = Len(InputDetectors)
       /\ (~unit_input.detectors_set => Len(get_detectors(unit_output)) = 1)
       /\ \A i \in DOMAIN InputDetectors :
            /\ get_detectors(unit_output)[i].type = InputDetectors[i].type
            /\ get_detectors(unit_output)[i].id = ResolvedIds[i]

\* Accepted: a list of two detectors of different types.
C22_Witness ==
    /\ unit_output.present
    /\ unit_output.exc = ""
    /\ unit_input.detectors_set
    /\ Len(unit_input.detectors) = 2
    /\ unit_input.detectors[1].type = "threshold"
    /\ unit_input.detectors[2].type = "mad"

\* Two parameter mappings hold the same key/value pairs.
SameItems(p1, p2) ==
    {p1[i] : i \in DOMAIN p1} = {p2[i] : i \in DOMAIN p2}

WithoutDefaults(type, params) ==
    SelectSeq(params, LAMBDA p : p \notin DETECTOR_DEFAULTS(type))

\* C24: a parameter set to its registered default resolves to the id the
\* mapping without it resolves to; a parameter with another value stays in
\* the normalized mapping, so that dropping it changes that mapping; and for
\* a type without registered defaults every parameter is retained.
C24_DefaultsNormalizedAway ==
    Len(generated) >= 1
    => /\ generated[1] =
            _generate_id(self_detector.type,
                         WithoutDefaults(self_detector.type, self_detector.params))
       /\ \A i \in DOMAIN self_detector.params :
            self_detector.params[i] \notin DETECTOR_DEFAULTS(self_detector.type)
            => /\ \E j \in DOMAIN _normalize_params(self_detector.type,
                                                     self_detector.params) :
                    _normalize_params(self_detector.type, self_detector.params)[j]
                        = self_detector.params[i]
               /\ _normalize_params(self_detector.type, self_detector.params)
                    # _normalize_params(
                          self_detector.type,
                          SelectSeq(self_detector.params,
                                    LAMBDA p : p # self_detector.params[i]))
       /\ (DETECTOR_DEFAULTS(self_detector.type) = {}
            => _normalize_params(self_detector.type, self_detector.params)
                = self_detector.params)

\* Resolved: a mad detector with n_sigma at its default beside another key.
C24_Witness ==
    /\ Len(generated) >= 1
    /\ self_detector.type = "mad"
    /\ self_detector.params = << <<"n_sigma", "3.0">>, <<"window_size", "7 days">> >>
    /\ generated[1] = "bb969232"

C26_EnabledBacktestNeedsAllFour ==
    (/\ backtest.enabled
     /\ \/ Missing(backtest.data_load_start)
        \/ Missing(backtest.detection_start)
        \/ Missing(backtest.detection_end)
        \/ Missing(backtest.step_interval))
    => bt_pc \notin {"validate", "parse", "loop", "step", "returned"}

\* ---------------------------------------------- claims on the history windows
\* The saved datapoints of the queried metric up to end_time.
Eligible ==
    {i \in DOMAIN store :
        /\ store[i].metric_name = query.metric_name
        /\ store[i].collected_at <= query.end_time}

\* How many rows of a sequence equal r.
Copies(rows, r) == Cardinality({i \in DOMAIN rows : rows[i] = r})

\* C27: query_datapoints returns its rows in ascending timestamp order for
\* both window forms; for a point count N these are the N most recent points
\* of the metric with timestamp <= end_time (all of them when fewer than N
\* exist), oldest first.
C27_DatapointsAscending ==
    (query.op = "query_datapoints" /\ query_result.exc = "")
    => /\ \A i, j \in DOMAIN query_result.rows :
            i < j => query_result.rows[i].collected_at
                        <= query_result.rows[j].collected_at
       /\ (query.window.kind = "int"
            => /\ Len(query_result.rows)
                    = (IF query.window.amount < Cardinality(Eligible)
                       THEN query.window.amount ELSE Cardinality(Eligible))
               /\ \A k \in DOMAIN query_result.rows :
                    /\ \E i \in Eligible : store[i] = query_result.rows[k]
                    /\ \A i \in Eligible :
                        store[i].collected_at > query_result.rows[k].collected_at
                        => Copies(query_result.rows, store[i])
                            = Copies([n \in 1..Len(store) |->
                                        IF n \in Eligible THEN store[n] ELSE None],
                                     store[i]))

\* The unit of the window grammar a unit word stands for (None when it is
\* not one of them): second(s), minute(s), hour(s), day(s), week(s) in any
\* letter case.
GrammarUnit(word) ==
    IF Lower(word) \in {"second", "seconds"} THEN "second"
    ELSE IF Lower(word) \in {"minute", "minutes"} THEN "minute"
    ELSE IF Lower(word) \in {"hour", "hours"} THEN "hour"
    ELSE IF Lower(word) \in {"day", "days"} THEN "day"
    ELSE IF Lower(word) \in {"week", "weeks"} THEN "week"
    ELSE None

\* C28: for a duration window "<N> <unit>" with any unit of the grammar and
\* an end_time E, query_datapoints returns exactly the saved points of the
\* metric with timestamp in [E - N units, E], and no point of another metric.
C28_DurationWindowRange ==
    (/\ query.op = "query_datapoints"
     /\ query.window.kind = "interval"
     /\ GrammarUnit(query.window.unit) # None)
    => /\ query_result.exc = ""
       /\ \A i \in DOMAIN store :
            Copies(query_result.rows, store[i])
            = IF /\ i \in Eligible
                 /\ store[i].collected_at
                    >= query.end_time
                       - query.window.amount
                         * UnitSeconds(GrammarUnit(query.window.unit))
              THEN Cardinality({n \in DOMAIN store : store[n] = store[i]})
              ELSE 0

\* A window or duration expression outside the grammar: a wrong token count,
\* a non-integer amount, or an unrecognized unit.
Malformed(w) ==
    \/ w.kind \in {"empty", "oneword", "threewords", "notint"}
    \/ w.kind = "interval" /\ GrammarUnit(w.unit) = None

\* C29: a malformed window or duration expression fails with a
\* ConfigurationError in query_datapoints, in query_detections and in the
\* backtest step_interval parser; it is never defaulted or accepted in part.
C29_MalformedWindowRejected ==
    (query.present /\ Malformed(query.window))
    => /\ query_result.exc = "ConfigurationError"
       /\ _parse_interval(query.window).exc = "ConfigurationError"

\* The saved detections of the queried metric up to end_time.
EligibleDetections ==
    {i \in DOMAIN dtk_detections :
        /\ dtk_detections[i].metric_name = query.metric_name
        /\ dtk_detections[i].detected_at <= query.end_time}

\* C30: the parsers agree: query_detections reads an integer window as
\* query_datapoints does, as the N most recent rows, and a duration window as
\* the same time range; and the backtest duration parser and the storage
\* window parser accept the same expressions with the same length.
C30_WindowSemanticsAgree ==
    query.present
    => /\ ((query.op = "query_detections" /\ save_detections_enabled
             /\ query.window.kind = "int")
            => /\ query_result.exc = ""
               /\ Len(query_result.rows)
                    = (IF query.window.amount < Cardinality(EligibleDetections)
                       THEN query.window.amount
                       ELSE Cardinality(EligibleDetections)))
       /\ ((query.op = "query_detections" /\ save_detections_enabled
             /\ query.window.kind # "int")
            => /\ (query_result.exc = "") = (ParseWindow(query.window).exc = "")
               /\ (query_result.exc = ""
                    => \A i \in DOMAIN dtk_detections :
                        (\E k \in DOMAIN query_result.rows :
                            query_result.rows[k] = dtk_detections[i])
                        = /\ i \in EligibleDetections
                          /\ dtk_detections[i].detected_at
                                >= query.end_time - ParseWindow(query.window).seconds))
       /\ (query.window.kind # "int"
            => /\ (_parse_interval(query.window).exc = "")
                    = (ParseWindow(query.window).exc = "")
               /\ _parse_interval(query.window).seconds
                    = ParseWindow(query.window).seconds)

\* ------------------------------------------- claims on the stages of execute()
\* The stage a plugin operation belongs to by its role and name: 1 collect,
\* 2 persist, 3 detect, 4 alert; 0 for the storage constructor, which both the
\* persist and the detect stage call.
StageRank(c) ==
    IF c.role = "collector" THEN 1
    ELSE IF c.role = "storage" /\ c.op \in WriteOps THEN 2
    ELSE IF c.role = "detector" THEN 3
    ELSE IF c.role = "alerter" THEN 4
    ELSE 0

\* C35: within one execute() the plugin operations happen in the order load
\* config, collector.collect, storage save, detector.detect, alerter.send: no
\* plugin operation before the configuration is loaded, no operation of an
\* earlier stage after one of a later stage, each of the four operations at
\* most once, and detect() receives the value and timestamp of the collected
\* DataPoint.
C35_StagesInOrder ==
    /\ (pc \in {"idle", "load"} => calls = <<>>)
    /\ \A i, j \in DOMAIN calls :
          (i < j /\ StageRank(calls[i]) # 0 /\ StageRank(calls[j]) # 0)
          => StageRank(calls[i]) <= StageRank(calls[j])
    /\ Count("collector", {"collect"}, {"ok", "raise"}) <= 1
    /\ Count("storage", WriteOps, {"ok", "raise"}) <= 1
    /\ Count("detector", {"detect"}, {"ok", "raise"}) <= 1
    /\ Count("alerter", {"send"}, {"True", "False", "raise"}) <= 1
    /\ \A i \in CallsWhere("detector", {"detect"}, {"ok", "raise"}) :
          /\ datapoint.present
          /\ calls[i].args.value = datapoint.value
          /\ calls[i].args.timestamp = datapoint.timestamp

C35_Witness ==
    /\ pc = "returned"
    /\ datapoint.value = 42
    /\ datapoint.timestamp = execution_time - 1
    /\ HasCall("collector", "collect", "ok")
    /\ HasCall("storage", "save", "ok")
    /\ HasCall("detector", "detect", "ok")
    /\ HasCall("alerter", "send", "True")

\* C36: at most one storage instance is constructed in one invocation.
C36_OneStorageInstance ==
    Count("storage", {"construct"}, {"ok"}) <= 1

\* C37: with storage disabled no storage plugin is constructed and the detector
\* is constructed with no storage handle; with storage enabled every storage
\* instance of the invocation, in the persist stage and in the detect stage, is
\* of the configured storage type, or of the collector's type when none is
\* configured.
C37_StorageResolution ==
    config.present
    => /\ (~config.storage_enabled
            => /\ \A i \in DOMAIN calls : calls[i].role # "storage"
               /\ \A i \in CallsWhere("detector", {"construct"}, {"ok", "raise"}) :
                      calls[i].args.storage = None)
       /\ (config.storage_enabled
            => \A i \in CallsWhere("storage", {"construct"}, {"ok", "raise"}) :
                  calls[i].args.type =
                      (IF raw.storage_type = None THEN raw.collector
                       ELSE raw.storage_type))

C37_Witness ==
    /\ pc = "returned"
    /\ config.storage_enabled
    /\ raw.storage_type = "mock"
    /\ raw.collector = "sql"
    /\ Count("storage", {"construct"}, {"ok"}) = 2
    /\ HasCall("storage", "save", "ok")
    /\ HasCall("detector", "detect", "ok")

\* C38: in a single-detector unit, when the detector's resolution, construction
\* or detect() raises, one detection error is appended, the DetectionResult is
\* non-anomalous, carries the error text and the collected point's value and
\* timestamp, and no alerter is constructed or called.
C38_DetectorFailureResult ==
    (/\ pc = "returned"
     /\ datapoint.present
     /\ config.detector # NoDetector
     /\ detectorPlugins[1].outcome
            \in {"unregistered", "construct_fail", "detect_throws"})
    => /\ Cardinality(ErrorsOf(result.errors, {"Failed to run detection"})) = 1
       /\ ~result.detection.is_anomaly
       /\ \E k \in ErrorsOf(result.errors, {"Failed to run detection"}) :
              result.detection.error = result.errors[k].exc
       /\ result.detection.error # ""
       /\ result.detection.value = datapoint.value
       /\ result.detection.timestamp = datapoint.timestamp
       /\ \A i \in DOMAIN calls : calls[i].role # "alerter"
       /\ ~result.alert_sent

C38_Witness ==
    /\ pc = "returned"
    /\ config.detector # NoDetector
    /\ datapoint.value = 42
    /\ HasCall("detector", "detect", "raise")
    /\ result.detection.error = "DetectionError"

\* ------------------------------------------ MattermostAlerter, one instance
\* Everything but the alerter instance.
nonalerter ==
    <<execvars, btvars, unit_input, unit_output, libvars, httpvars, loadervars>>

AlertMetrics == {"sessions", "revenue"}

\* Detection timestamps: whole minutes up to one past the cooldown.
AlertTimes == {k * SecondsPerMinute : k \in 0..(CooldownMinutes + 1)}

\* execute(), run(), the validators and the storage are not exercised.
CoreIdle ==
    /\ pc = "idle"
    /\ raw = NoRaw
    /\ execution_time = 0
    /\ detectorPlugins = <<>>
    /\ config = NoConfig
    /\ errors = <<>>
    /\ datapoint = NoDataPoint
    /\ detection = NoDetection
    /\ alert_sent = FALSE
    /\ alert_reason = NoReason
    /\ result = NoResult
    /\ raised = ""
    /\ calls = <<>>
    /\ store = <<>>
    /\ backtest = NoBacktest
    /\ bt_pc = "idle"
    /\ current_time = 0
    /\ step_count = 0
    /\ total_steps = 0
    /\ results = <<>>
    /\ invoked = <<>>
    /\ detect_calls = 0
    /\ bt_result = NoBacktestResult
    /\ bt_raised = ""
    /\ unit_input = UnitInput(NoRawDetector, <<>>, FALSE)
    /\ unit_output = NoUnitOutput
    /\ self_detector = NoRawDetector
    /\ generated = <<>>
    /\ dtk_detections = <<>>
    /\ save_detections_enabled = FALSE
    /\ query = NoQuery
    /\ query_result = NoQueryResult
    /\ saved = <<>>

\* An alerter is constructed, with cooldown_minutes 0 or CooldownMinutes.
AlerterInit ==
    /\ CoreIdle
    /\ HttpIdle
    /\ LoaderIdle
    /\ \E c \in {0, CooldownMinutes} :
          alerter = [MattermostAlerter EXCEPT !.cooldown_minutes = c]
    /\ sends = <<>>

\* alerter.send(detection)
Send ==
    /\ Len(sends) < MaxSends
    /\ \E m \in AlertMetrics, t \in AlertTimes, a \in BOOLEAN,
          webhook \in {"ok", "fail"} :
        LET det == DetectionResult(m, t, 42, a, NumScore(4237), "")
            r == MattermostAlerter_send(alerter, det, webhook)
        IN  /\ alerter' = r.self
            /\ sends' = Append(sends,
                  [op |-> "send", metric_name |-> m, timestamp |-> t,
                   is_anomaly |-> a, returned |-> r.returned,
                   requests |-> r.requests,
                   before |-> alerter._last_alert_time,
                   after |-> r.self._last_alert_time])
    /\ UNCHANGED nonalerter

\* alerter.clear_cooldown(metric_name)
ClearCooldown ==
    /\ Len(sends) < MaxSends
    /\ \E m \in AlertMetrics \cup {None} :
        /\ alerter' = clear_cooldown(alerter, m)
        /\ sends' = Append(sends,
              [op |-> "clear_cooldown", metric_name |-> m, timestamp |-> 0,
               is_anomaly |-> FALSE, returned |-> None, requests |-> 0,
               before |-> alerter._last_alert_time,
               after |-> clear_cooldown(alerter, m)._last_alert_time])
    /\ UNCHANGED nonalerter

AlerterNext == Send \/ ClearCooldown

AlerterSpec == AlerterInit /\ [][AlerterNext]_vars

\* ------------------------------------------------- claims on the alerter
\* The sends before call j that returned True for the metric of call j and
\* have not been cleared since.
AlertedBefore(j) ==
    {i \in 1..(j - 1) :
        /\ sends[i].op = "send"
        /\ sends[i].metric_name = sends[j].metric_name
        /\ sends[i].returned = "True"
        /\ \A k \in (i + 1)..(j - 1) :
              sends[k].op = "clear_cooldown"
              => sends[k].metric_name \notin {None, sends[j].metric_name}}

\* The most recent of them.
LastAlerted(j) == CHOOSE i \in AlertedBefore(j) : \A k \in AlertedBefore(j) : k <= i

CooldownSeconds == alerter.cooldown_minutes * SecondsPerMinute

C39_FailedSendKeepsCooldown ==
    \A j \in DOMAIN sends :
        sends[j].op = "send"
        => /\ (sends[j].returned = "AlertError"
                => sends[j].after = sends[j].before)
           /\ ((sends[j].is_anomaly /\ sends[j].returned = "False")
                => /\ AlertedBefore(j) # {}
                   /\ sends[j].timestamp
                        < sends[LastAlerted(j)].timestamp + CooldownSeconds)
           /\ {e \in sends[j].after : e[1] # sends[j].metric_name}
                = {e \in sends[j].before : e[1] # sends[j].metric_name}

C39_Witness ==
    /\ Len(sends) = 3
    /\ alerter.cooldown_minutes = CooldownMinutes
    /\ \A j \in 1..3 : sends[j].op = "send" /\ sends[j].is_anomaly
    /\ sends[1].metric_name = "revenue" /\ sends[1].returned = "True"
    /\ sends[2].metric_name = "sessions" /\ sends[2].returned = "AlertError"
    /\ sends[3].metric_name = "sessions" /\ sends[3].returned = "True"
    /\ sends[1].timestamp = sends[2].timestamp
    /\ sends[3].timestamp = sends[2].timestamp

\* C40: with cooldown_minutes > 0, a send for a metric whose timestamp is
\* earlier than that of the metric's last alert returns False without a
\* request, and the recorded last-alert time stays that of the last alert.
C40_EarlierTimestampSuppressed ==
    \A j \in DOMAIN sends :
        (/\ sends[j].op = "send"
         /\ alerter.cooldown_minutes > 0
         /\ AlertedBefore(j) # {}
         /\ sends[j].timestamp < sends[LastAlerted(j)].timestamp)
        => /\ sends[j].returned = "False"
           /\ sends[j].requests = 0
           /\ sends[j].after = sends[j].before
           /\ <<sends[j].metric_name, sends[LastAlerted(j)].timestamp>>
                \in sends[j].after

C40_Witness ==
    /\ Len(sends) = 2
    /\ sends[1].op = "send" /\ sends[2].op = "send"
    /\ sends[1].returned = "True"
    /\ sends[1].timestamp = (CooldownMinutes + 1) * SecondsPerMinute
    /\ sends[2].metric_name = sends[1].metric_name
    /\ sends[2].is_anomaly
    /\ sends[2].timestamp = 0
    /\ sends[2].returned = "False"
    /\ alerter._last_alert_time
         = {<<sends[1].metric_name, (CooldownMinutes + 1) * SecondsPerMinute>>}

\* ----------------------------------------------- HTTPCollector.collect_bulk
\* Everything but the HTTP collector.
nonhttp ==
    <<execvars, btvars, unit_input, unit_output, libvars, alertervars, loadervars>>

\* A collector with retry_count 0..MaxRetries is constructed and a collection
\* ending at period_finish is about to be asked of it.
HttpInit ==
    /\ CoreIdle
    /\ AlerterIdle
    /\ LoaderIdle
    /\ \E n \in 0..MaxRetries, m \in {"GET", "POST"}, t \in 1..MaxTime :
          http = [collector |-> HTTPCollector(n, m), period_finish |-> t]
    /\ http_pc = "idle"
    /\ attempt = 0
    /\ http_log = <<>>
    /\ http_result = NoHttpResult

\* collect_bulk(period_start, period_finish) is called.
CollectBulk ==
    /\ http_pc = "idle"
    /\ http_pc' = "loop"
    /\ attempt' = 0
    /\ UNCHANGED <<nonhttp, http, http_log, http_result>>

\* One pass of the retry loop up to the sleep: the request, then the return,
\* the except RequestException clause or the except Exception clause.
Request ==
    /\ http_pc = "loop"
    /\ attempt \in RetryRange(http.collector.retry_count)
    /\ \/ \E v \in Values :
            /\ http_log' = Append(http_log, HttpRequest(http.collector.method, "ok"))
            /\ http_result' = [exc |-> "",
                               datapoints |-> <<DataPoint(http.period_finish, v)>>,
                               present |-> TRUE]
            /\ http_pc' = "returned"
            /\ UNCHANGED attempt
       \/ /\ http_log' = Append(http_log,
                                HttpRequest(http.collector.method, "request_error"))
          /\ IF attempt < http.collector.retry_count - 1
             THEN http_pc' = "sleep" /\ UNCHANGED attempt
             ELSE http_pc' = "loop" /\ attempt' = attempt + 1
          /\ UNCHANGED http_result
       \/ /\ http_log' = Append(http_log,
                                HttpRequest(http.collector.method, "parse_error"))
          /\ http_result' = [exc |-> "CollectionError", datapoints |-> <<>>,
                             present |-> TRUE]
          /\ http_pc' = "raised"
          /\ UNCHANGED attempt
    /\ UNCHANGED <<nonhttp, http>>

\* time.sleep(self.retry_delay), then the next pass.
Sleep ==
    /\ http_pc = "sleep"
    /\ http_log' = Append(http_log, HttpSleep)
    /\ attempt' = attempt + 1
    /\ http_pc' = "loop"
    /\ UNCHANGED <<nonhttp, http, http_result>>

\* The loop is over without a return: all retries exhausted.
Exhausted ==
    /\ http_pc = "loop"
    /\ attempt \notin RetryRange(http.collector.retry_count)
    /\ http_result' = [exc |-> "CollectionError", datapoints |-> <<>>,
                       present |-> TRUE]
    /\ http_pc' = "raised"
    /\ UNCHANGED <<nonhttp, http, attempt, http_log>>

HttpNext == CollectBulk \/ Request \/ Sleep \/ Exhausted

HttpSpec == HttpInit /\ [][HttpNext]_vars

\* ------------------------------------------ claims on the HTTP collector
\* The requests of this collect_bulk(), by position in the log.
Requests == {i \in DOMAIN http_log : http_log[i].kind = "request"}

RequestsWith(outcomes) == {i \in Requests : http_log[i].outcome \in outcomes}

nonloader ==
    <<execvars, btvars, unit_input, unit_output, libvars, alertervars, httpvars>>

EnvNames == {"HOST", "TOKEN"}

\* The pieces a file is made of.
Pieces ==
    {Text("name: sessions"), BadYaml}
    \cup {EnvRef(n, d) : n \in EnvNames, d \in {None, "localhost", " localhost "}}
    \cup {Tmpl(v) : v \in {"execution_time", "undefined_var"}}

\* os.environ: HOST unset, set, set to the empty string or set to a text that
\* is itself a template expression; TOKEN unset or set.
Environs ==
    {[n \in EnvNames |-> IF n = "HOST" THEN h ELSE t] :
        h \in {Unset, Text("db1"), Text(""), Tmpl("execution_time")},
        t \in {Unset, Text("s3cret")}}

\* template_context: empty, or execution_time rendering as a date or as a text
\* that has the form of an environment reference.
Contexts ==
    {[n \in D |-> v] : D \in {{}, {"execution_time"}},
                       v \in {Text("2024-01-15"), EnvRef("HOST", None)}}

\* (the file, the shape of the YAML document, whether MetricConfig accepts it)
FileChoices ==
    {<<"ok", "mapping", TRUE>>, <<"ok", "mapping", FALSE>>, <<"ok", "list", TRUE>>,
     <<"missing", "mapping", TRUE>>, <<"unreadable", "mapping", TRUE>>}

LoaderInit ==
    /\ CoreIdle
    /\ AlerterIdle
    /\ HttpIdle
    /\ \E f \in FileChoices, c \in UNION {[1..k -> Pieces] : k \in 1..MaxPieces},
          e \in Environs, ctx \in Contexts :
          loader_input = [file |-> f[1], content |-> c, shape |-> f[2],
                          valid |-> f[3], environ |-> e, template_context |-> ctx]
    /\ loader_pc = "idle"
    /\ loader_log = <<>>
    /\ loader_result = NoLoaderResult

\* The content the next step works on.
Content ==
    IF loader_log = <<>> THEN loader_input.content
    ELSE loader_log[Len(loader_log)].content

LoaderRaise ==
    /\ loader_pc' = "raised"
    /\ loader_result' = [exc |-> "ConfigurationError", config |-> <<>>,
                         present |-> TRUE]

\* A step of _parse_yaml or load_file ran with outcome r.
LoaderStep(step, r) ==
    /\ loader_log' = Append(loader_log,
                            [step |-> step, exc |-> r.exc, content |-> r.content])
    /\ IF r.exc # "" THEN LoaderRaise
       ELSE IF NextStep(step, loader_input.template_context) = "returned" THEN
           /\ loader_pc' = "returned"
           /\ loader_result' = [exc |-> "", config |-> r.content, present |-> TRUE]
       ELSE /\ loader_pc' = NextStep(step, loader_input.template_context)
            /\ UNCHANGED loader_result
    /\ UNCHANGED <<nonloader, loader_input>>

\* load_file(config_path, template_context) is called: the existence check
\* and the read.
LoadFile ==
    /\ loader_pc = "idle"
    /\ IF loader_input.file # "ok" THEN LoaderRaise
       ELSE /\ loader_pc' = NextStep("read", loader_input.template_context)
            /\ UNCHANGED loader_result
    /\ UNCHANGED <<nonloader, loader_input, loader_log>>

\* _parse_yaml step 1
SubstituteEnvVars ==
    /\ loader_pc = "env"
    /\ LoaderStep("env", _substitute_env_vars(Content, loader_input.environ))

\* _parse_yaml step 2
RenderTemplate ==
    /\ loader_pc = "template"
    /\ LoaderStep("template", render(Content, loader_input.template_context))

\* _parse_yaml step 3
SafeLoad ==
    /\ loader_pc = "yaml"
    /\ LoaderStep("yaml", safe_load(Content, loader_input.shape))

\* MetricConfig(**config_dict)
ValidateModel ==
    /\ loader_pc = "validate"
    /\ LoaderStep("validate",
                  [exc |-> IF loader_input.valid THEN "" ELSE "ConfigurationError",
                   content |-> Content])

LoaderNext ==
    LoadFile \/ SubstituteEnvVars \/ RenderTemplate \/ SafeLoad \/ ValidateModel

LoaderSpec == LoaderInit /\ [][LoaderNext]_vars

\* ------------------------------------------------- claims on the loader
StepRank(step) ==
    IF step = "env" THEN 1 ELSE IF step = "template" THEN 2
    ELSE IF step = "yaml" THEN 3 ELSE 4

Ran(step) == \E i \in DOMAIN loader_log : loader_log[i].step = step

\* The content after the step, when it ran without raising.
After(step) ==
    loader_log[CHOOSE i \in DOMAIN loader_log : loader_log[i].step = step].content

C34_MissingSurvives ==
    (query.op = "query_datapoints" /\ query_result.exc = "")
    => \A k \in DOMAIN query_result.rows :
          \E i \in DOMAIN store :
              /\ store[i] = query_result.rows[k]
              /\ saved[i].timestamp = query_result.rows[k].collected_at
              /\ saved[i].value = query_result.rows[k].value
====
